---- MODULE Spec2Model ----
(***************************************************************************)
(* Model of the date-plan extraction and rendering pipeline of the chat    *)
(* frontend: tryParseDatePlanJson and ChatResponseMessage                  *)
(* (components/custom/chat-response-message.tsx) and DatePlanDisplay       *)
(* (components/custom/date-plan-display.tsx), and of the chat transport    *)
(* around it: usePostMessage and useChatMessages (api/chat/hooks.ts), the  *)
(* pending flag of Chat (pages/Chat.tsx) and handleSubmit of               *)
(* ChatPromptInput (components/custom/chat-prompt-input.tsx).              *)
(*                                                                         *)
(* A string is a sequence of lexical units.  Every punctuation and         *)
(* whitespace character is a unit of its own ("{", "}", " ", ...);         *)
(* a run of letters that the code only ever reads as a whole (json,        *)
(* status, ok, ...) is one unit.  Indices are 1-based; 0 stands for the    *)
(* -1 of indexOf/lastIndexOf.                                              *)
(*                                                                         *)
(* Spec renders one chat message with ChatResponseMessage; DisplaySpec     *)
(* renders DatePlanDisplay alone, with a payload as its data prop, in the  *)
(* runtime of a viewer (time zone and default locale); ChatSpec runs the   *)
(* chat page: submits, posts and refetches in flight and their callbacks.  *)
(***************************************************************************)
EXTENDS Integers, Sequences, FiniteSets, TLC

LB == "{"
RB == "}"
\* the backtick character (the string syntax of TLA+ has no backtick)
BT == "backtick"
SP == " "
NL == "\n"
DQ == "\""
BS == "\\"

\* \s of the regular expressions, the set String.prototype.trim strips and
\* the whitespace of the JSON grammar, restricted to the alphabet
IsSpace(c) == c \in {SP, NL}

Min(S) == CHOOSE x \in S : \A y \in S : x <= y
Max(S) == CHOOSE x \in S : \A y \in S : x >= y

\* s.substring(a-1, b) with 1-based inclusive bounds
Sub(s, a, b) == IF a > b THEN <<>> ELSE SubSeq(s, a, b)

\* greedy \s* from position i: the first position at or after i that holds
\* no whitespace (Len(s)+1 when the string ends first)
SkipSpace(s, i) ==
  LET stops == {k \in i..Len(s) : ~IsSpace(s[k])}
  IN IF stops = {} THEN Len(s) + 1 ELSE Min(stops)

\* three backticks at position p
HasFence(s, p) ==
  /\ p >= 1
  /\ p + 2 <= Len(s)
  /\ s[p] = BT /\ s[p+1] = BT /\ s[p+2] = BT

NoMatch == [found |-> FALSE, str |-> <<>>]
Found(str) == [found |-> TRUE, str |-> str]

\* where the object of /```(?:json)?\s*(\{.../ opens when the fence is at p
FenceBodyStart(s, p) ==
  LET q1 == p + 3
      q2 == IF q1 <= Len(s) /\ s[q1] = "json" THEN q1 + 1 ELSE q1
  IN SkipSpace(s, q2)

\* the closing braces of /(\{[\s\S]*?\})\s*```/ for an object opened at b
FenceBodyEnds(s, b) ==
  {e \in (b+1)..Len(s) : s[e] = RB /\ HasFence(s, SkipSpace(s, e + 1))}

\* FencedMatch with a pattern that does not ask for "{" after the fence:
\* /```(?:json)?\s*([\s\S]*?)\s*```/
FencedMatchAnyBody(s) ==
  LET ends(b) == {e \in (b-1)..Len(s) : HasFence(s, SkipSpace(s, e + 1))}
      starts == {p \in 1..Len(s) :
                   HasFence(s, p) /\ ends(FenceBodyStart(s, p)) # {}}
  IN IF starts = {} THEN NoMatch
     ELSE LET b == FenceBodyStart(s, Min(starts))
          IN Found(Sub(s, b, Min(ends(b))))

\* strategy 1: content.match(/```(?:json)?\s*(\{[\s\S]*?\})\s*```/), group 1
FencedMatch(s) ==
  LET starts == {p \in 1..Len(s) :
                   /\ HasFence(s, p)
                   /\ FenceBodyStart(s, p) <= Len(s)
                   /\ s[FenceBodyStart(s, p)] = LB
                   /\ FenceBodyEnds(s, FenceBodyStart(s, p)) # {}}
  IN IF starts = {} THEN NoMatch
     ELSE LET b == FenceBodyStart(s, Min(starts))
          IN Found(Sub(s, b, Min(FenceBodyEnds(s, b))))

\* strategies 2 and 3: content.match(/^json\s+(\{[\s\S]*\})/m), group 1
TagMatch(s) ==
  LET starts == {p \in 1..Len(s) :
                   /\ p = 1 \/ s[p-1] = NL
                   /\ s[p] = "json"
                   /\ p + 1 <= Len(s)
                   /\ IsSpace(s[p+1])
                   /\ SkipSpace(s, p + 1) <= Len(s)
                   /\ s[SkipSpace(s, p + 1)] = LB
                   /\ \E e \in (SkipSpace(s, p + 1) + 1)..Len(s) : s[e] = RB}
  IN IF starts = {} THEN NoMatch
     ELSE LET b == SkipSpace(s, Min(starts) + 1)
          IN Found(Sub(s, b, Max({e \in (b+1)..Len(s) : s[e] = RB})))

\* content.indexOf(c)
IndexOf(s, c) ==
  LET hits == {k \in 1..Len(s) : s[k] = c}
  IN IF hits = {} THEN 0 ELSE Min(hits)

\* str.lastIndexOf(c)
LastIndexOf(s, c) ==
  LET hits == {k \in 1..Len(s) : s[k] = c}
  IN IF hits = {} THEN 0 ELSE Max(hits)

\* the for loop of strategy 4: the value of endIndex when the loop ends
RECURSIVE BraceLoop(_, _, _, _)
BraceLoop(s, i, braceCount, startIndex) ==
  IF i > Len(s) THEN startIndex
  ELSE LET c1 == IF s[i] = LB THEN braceCount + 1 ELSE braceCount
           c2 == IF s[i] = RB THEN c1 - 1 ELSE c1
       IN IF c2 = 0 THEN i ELSE BraceLoop(s, i + 1, c2, startIndex)

\* BraceScan that ends the span at the last "}" of the text
BraceScanToLastBrace(s) ==
  LET startIndex == IndexOf(s, LB)
  IN IF startIndex = 0 THEN NoMatch
     ELSE IF LastIndexOf(s, RB) > startIndex
     THEN Found(Sub(s, startIndex, LastIndexOf(s, RB)))
     ELSE NoMatch

\* BraceScan that takes the rest of the text when the depth never returns
\* to 0
BraceScanToEnd(s) ==
  LET startIndex == IndexOf(s, LB)
  IN IF startIndex = 0 THEN NoMatch
     ELSE LET endIndex == BraceLoop(s, startIndex, 0, Len(s))
          IN IF endIndex > startIndex
             THEN Found(Sub(s, startIndex, endIndex))
             ELSE NoMatch

\* strategy 4: the span from the first "{" to where the depth returns to 0
BraceScan(s) ==
  LET startIndex == IndexOf(s, LB)
  IN IF startIndex = 0 THEN NoMatch
     ELSE LET endIndex == BraceLoop(s, startIndex, 0, startIndex)
          IN IF endIndex > startIndex
             THEN Found(Sub(s, startIndex, endIndex))
             ELSE NoMatch

\* `if (!jsonMatch) { jsonMatch = ... }`
IfNoMatch(jsonMatch, next) == IF ~jsonMatch.found THEN next ELSE jsonMatch

\* JsonMatch with the strategies in the opposite order
JsonMatchScanFirst(s) ==
  IfNoMatch(IfNoMatch(IfNoMatch(BraceScan(s), TagMatch(s)), TagMatch(s)),
            FencedMatch(s))

\* JsonMatch whose third strategy looks for the tag anywhere in the text:
\* /json\s+(\{[\s\S]*\})/
JsonMatchLooseThird(s) ==
  LET starts == {p \in 1..Len(s) :
                   /\ s[p] = "json"
                   /\ p + 1 <= Len(s)
                   /\ IsSpace(s[p+1])
                   /\ SkipSpace(s, p + 1) <= Len(s)
                   /\ s[SkipSpace(s, p + 1)] = LB
                   /\ \E e \in (SkipSpace(s, p + 1) + 1)..Len(s) : s[e] = RB}
      third == IF starts = {} THEN NoMatch
               ELSE Found(Sub(s, SkipSpace(s, Min(starts) + 1),
                              LastIndexOf(s, RB)))
  IN IfNoMatch(IfNoMatch(IfNoMatch(FencedMatch(s), TagMatch(s)), third),
               BraceScan(s))

\* the cascade of the four strategies: jsonMatch before `if (jsonMatch)`
JsonMatch(s) ==
  IfNoMatch(IfNoMatch(IfNoMatch(FencedMatch(s), TagMatch(s)), TagMatch(s)),
            BraceScan(s))

\* String.prototype.trim
Trim(s) ==
  LET keep == {k \in 1..Len(s) : ~IsSpace(s[k])}
  IN IF keep = {} THEN <<>> ELSE Sub(s, Min(keep), Max(keep))

\* a text that does not end with "}" is cut back to its last "}"
CutBack(jsonStr) ==
  IF jsonStr # <<>> /\ jsonStr[Len(jsonStr)] = RB THEN jsonStr
  ELSE IF LastIndexOf(jsonStr, RB) > 1
  THEN Sub(jsonStr, 1, LastIndexOf(jsonStr, RB))
  ELSE jsonStr

\* the clean-up of the candidate: trim, then cut back to the last "}"
CleanUp(str) == CutBack(Trim(str))

(***************************************************************************)
(* JavaScript values.  Every kind has its own field name, so that values   *)
(* of different kinds are unequal and never compared field by field.       *)
(***************************************************************************)
Undefined == [t |-> "undefined"]
Null == [t |-> "null"]
Bool(b) == [t |-> "boolean", b |-> b]
Num(n) == [t |-> "number", n |-> n]
Str(s) == [t |-> "string", s |-> s]
Arr(a) == [t |-> "array", a |-> a]
Obj(o) == [t |-> "object", o |-> o]

EmptyObj == Obj(<<>>)

\* the object o with property k set to v (a later duplicate key wins)
Put(o, k, v) == [x \in (DOMAIN o) \cup {k} |-> IF x = k THEN v ELSE o[x]]

Digits == {"0", "1", "2", "3", "4", "5", "6", "7", "8", "9"}
DigitVal(c) ==
  CASE c = "0" -> 0 [] c = "1" -> 1 [] c = "2" -> 2 [] c = "3" -> 3
    [] c = "4" -> 4 [] c = "5" -> 5 [] c = "6" -> 6 [] c = "7" -> 7
    [] c = "8" -> 8 [] c = "9" -> 9

ParseFail == [ok |-> FALSE, v |-> Undefined, next |-> 0]
ParseOk(v, next) == [ok |-> TRUE, v |-> v, next |-> next]

\* JSON string, entered after the opening quote: the escapes \" \\ \n are
\* decoded (the alphabet has no other escape), a raw line terminator or a
\* backslash before anything else is a syntax error
RECURSIVE ParseChars(_, _, _)
ParseChars(s, k, acc) ==
  IF k > Len(s) THEN ParseFail
  ELSE IF s[k] = DQ THEN ParseOk(Str(acc), k + 1)
  ELSE IF s[k] = NL THEN ParseFail
  ELSE IF s[k] = BS
       THEN IF k + 1 > Len(s) THEN ParseFail
            ELSE IF s[k+1] \in {DQ, BS} THEN ParseChars(s, k + 2, Append(acc, s[k+1]))
            ELSE IF s[k+1] = "n" THEN ParseChars(s, k + 2, Append(acc, NL))
            ELSE ParseFail
  ELSE ParseChars(s, k + 1, Append(acc, s[k]))

\* JSON number: a run of digits with no leading zero
RECURSIVE ParseDigits(_, _, _)
ParseDigits(s, k, acc) ==
  IF k <= Len(s) /\ s[k] \in Digits
  THEN ParseDigits(s, k + 1, acc * 10 + DigitVal(s[k]))
  ELSE ParseOk(Num(acc), k)

ParseNumber(s, j) ==
  IF s[j] = "0" /\ j + 1 <= Len(s) /\ s[j+1] \in Digits
  THEN ParseFail
  ELSE ParseDigits(s, j, 0)

RECURSIVE ParseValue(_, _)
RECURSIVE ParseElements(_, _, _)
RECURSIVE ParseMembers(_, _, _)

\* after an element r of an array, at position k: "]" ends the array, ","
\* asks for one more element
ElementEnd(s, k, a) ==
  IF k > Len(s) THEN ParseFail
  ELSE IF s[k] = "]" THEN ParseOk(Arr(a), k + 1)
  ELSE IF s[k] = "," THEN ParseElements(s, k + 1, a)
  ELSE ParseFail

ElementNext(s, r, acc) ==
  IF r.ok THEN ElementEnd(s, SkipSpace(s, r.next), Append(acc, r.v)) ELSE ParseFail

\* the elements of an array after "[" or ","
ParseElements(s, i, acc) == ElementNext(s, ParseValue(s, i), acc)

\* after a member of an object, at position k: "}" ends the object, ","
\* asks for one more member
MemberEnd(s, k, o) ==
  IF k > Len(s) THEN ParseFail
  ELSE IF s[k] = RB THEN ParseOk(Obj(o), k + 1)
  ELSE IF s[k] = "," THEN ParseMembers(s, k + 1, o)
  ELSE ParseFail

MemberNext(s, key, r, acc) ==
  IF r.ok THEN MemberEnd(s, SkipSpace(s, r.next), Put(acc, key.v.s, r.v)) ELSE ParseFail

MemberValue(s, key, c, acc) ==
  IF c <= Len(s) /\ s[c] = ":" THEN MemberNext(s, key, ParseValue(s, c + 1), acc)
  ELSE ParseFail

MemberColon(s, key, acc) ==
  IF key.ok THEN MemberValue(s, key, SkipSpace(s, key.next), acc) ELSE ParseFail

MemberKey(s, j, acc) ==
  IF j <= Len(s) /\ s[j] = DQ THEN MemberColon(s, ParseChars(s, j + 1, <<>>), acc)
  ELSE ParseFail

\* the members of an object after "{" or ",": string ":" value
ParseMembers(s, i, acc) == MemberKey(s, SkipSpace(s, i), acc)

\* "{" or "[" at position j, the next unit that is no whitespace at position k
ParseObject(s, j, k) ==
  IF k <= Len(s) /\ s[k] = RB THEN ParseOk(EmptyObj, k + 1)
  ELSE ParseMembers(s, j + 1, <<>>)

ParseArray(s, j, k) ==
  IF k <= Len(s) /\ s[k] = "]" THEN ParseOk(Arr(<<>>), k + 1)
  ELSE ParseElements(s, j + 1, <<>>)

\* the value that starts at position j
ParseValueAt(s, j) ==
  IF j > Len(s) THEN ParseFail
  ELSE IF s[j] = LB THEN ParseObject(s, j, SkipSpace(s, j + 1))
  ELSE IF s[j] = "[" THEN ParseArray(s, j, SkipSpace(s, j + 1))
  ELSE IF s[j] = DQ THEN ParseChars(s, j + 1, <<>>)
  ELSE IF s[j] \in Digits THEN ParseNumber(s, j)
  ELSE IF s[j] = "true" THEN ParseOk(Bool(TRUE), j + 1)
  ELSE IF s[j] = "false" THEN ParseOk(Bool(FALSE), j + 1)
  ELSE IF s[j] = "null" THEN ParseOk(Null, j + 1)
  ELSE ParseFail

ParseValue(s, i) == ParseValueAt(s, SkipSpace(s, i))

\* the whole text is one value
WholeText(s, r) ==
  IF r.ok /\ SkipSpace(s, r.next) > Len(s)
  THEN [threw |-> FALSE, v |-> r.v]
  ELSE [threw |-> TRUE, v |-> Undefined]

\* JSON.parse: the value, or a SyntaxError
JSONParse(s) == WholeText(s, ParseValue(s, 1))

\* a set as a sequence, in a fixed order
RECURSIVE SetToSeq(_)
SetToSeq(S) ==
  IF S = {} THEN <<>>
  ELSE LET x == CHOOSE y \in S : TRUE
       IN <<x>> \o SetToSeq(S \ {x})

\* the decimal digits of a non-negative integer
RECURSIVE NumText(_)
NumText(n) ==
  LET d == CHOOSE c \in Digits : DigitVal(c) = n % 10
  IN IF n < 10 THEN <<d>> ELSE Append(NumText(n \div 10), d)

\* the quoted, escaped text of a string
RECURSIVE Escape(_)
Escape(s) ==
  IF s = <<>> THEN <<>>
  ELSE LET c == Head(s)
       IN (IF c \in {DQ, BS} THEN <<BS, c>>
           ELSE IF c = NL THEN <<BS, "n">>
           ELSE <<c>>) \o Escape(Tail(s))

Quote(s) == <<DQ>> \o Escape(s) \o <<DQ>>

\* JSON.stringify of a value read from JSON
RECURSIVE Stringify(_)
RECURSIVE StringifyElements(_)
RECURSIVE StringifyMembers(_, _)
StringifyElements(a) ==
  IF a = <<>> THEN <<>>
  ELSE Stringify(Head(a))
       \o (IF Len(a) > 1 THEN <<",">> ELSE <<>>)
       \o StringifyElements(Tail(a))

StringifyMembers(o, keys) ==
  IF keys = <<>> THEN <<>>
  ELSE Quote(Head(keys)) \o <<":">> \o Stringify(o[Head(keys)])
       \o (IF Len(keys) > 1 THEN <<",">> ELSE <<>>)
       \o StringifyMembers(o, Tail(keys))

Stringify(v) ==
  CASE v.t = "null" -> <<"null">>
    [] v.t = "boolean" -> IF v.b THEN <<"true">> ELSE <<"false">>
    [] v.t = "number" -> NumText(v.n)
    [] v.t = "string" -> Quote(v.s)
    [] v.t = "array" -> <<"[">> \o StringifyElements(v.a) \o <<"]">>
    [] v.t = "object" -> <<LB>> \o StringifyMembers(v.o, SetToSeq(DOMAIN v.o)) \o <<RB>>

(***************************************************************************)
(* JavaScript semantics used by the code: truthiness, typeof, property     *)
(* access.                                                                 *)
(***************************************************************************)
Truthy(v) ==
  CASE v.t = "undefined" -> FALSE
    [] v.t = "null" -> FALSE
    [] v.t = "boolean" -> v.b
    [] v.t = "number" -> v.n # 0
    [] v.t = "string" -> v.s # <<>>
    [] v.t = "array" -> TRUE
    [] v.t = "object" -> TRUE

\* typeof v === 'object'
TypeofObject(v) == v.t \in {"null", "array", "object"}

\* reading a property of null or undefined raises a TypeError
Nullish(v) == v.t \in {"undefined", "null"}

\* v[k] for a value that is not nullish; k is the property name
Get(v, k) ==
  CASE v.t = "object" -> IF <<k>> \in DOMAIN v.o THEN v.o[<<k>>] ELSE Undefined
    [] v.t = "array" -> IF k = "length" THEN Num(Len(v.a)) ELSE Undefined
    [] v.t = "string" -> IF k = "length" THEN Num(Len(v.s)) ELSE Undefined
    [] OTHER -> Undefined

\* v.map(...) can be called: v is an array
HasMap(v) == v.t = "array"

IsString(v) == v.t = "string"

StatusOk == Str(<<"ok">>)
StatusNeedsClarification == Str(<<"needs_clarification">>)

\* ShapeOk without the test of status
ShapeOkAnyStatus(parsed) ==
  /\ Truthy(parsed)
  /\ TypeofObject(parsed)
  /\ \/ Truthy(Get(parsed, "plans"))
     \/ Truthy(Get(parsed, "clarifying_questions"))

\* ShapeOk with `'plans' in parsed || 'clarifying_questions' in parsed`
ShapeOkPresence(parsed) ==
  /\ Truthy(parsed)
  /\ TypeofObject(parsed)
  /\ \/ Get(parsed, "status") = StatusOk
     \/ Get(parsed, "status") = StatusNeedsClarification
  /\ \/ Get(parsed, "plans") # Undefined
     \/ Get(parsed, "clarifying_questions") # Undefined

\* the condition under which the parsed value is returned
ShapeOk(parsed) ==
  /\ Truthy(parsed)
  /\ TypeofObject(parsed)
  /\ \/ Get(parsed, "status") = StatusOk
     \/ Get(parsed, "status") = StatusNeedsClarification
  /\ \/ Truthy(Get(parsed, "plans"))
     \/ Truthy(Get(parsed, "clarifying_questions"))

Return(v) == [threw |-> FALSE, v |-> v]
Throw == [threw |-> TRUE, v |-> Undefined]

\* after JSON.parse: Throw when it raised, the parsed value when the shape
\* check returns it, Undefined when control leaves the block without a return
Validate(parsed) ==
  IF parsed.threw THEN Throw
  ELSE IF ShapeOk(parsed.v) THEN Return(parsed.v)
  ELSE Return(Undefined)

\* `if (jsonMatch) { ... }`
ParseCandidate(jsonMatch) ==
  IF ~jsonMatch.found THEN Return(Undefined)
  ELSE Validate(JSONParse(CleanUp(jsonMatch.str)))

\* TryBlock with a fallback: a candidate that does not parse or fails the
\* shape check hands over to the next strategy
TryBlockFallback(content) ==
  IF /\ ~ParseCandidate(FencedMatch(content)).threw
     /\ ParseCandidate(FencedMatch(content)).v # Undefined
  THEN ParseCandidate(FencedMatch(content))
  ELSE IF /\ ~ParseCandidate(TagMatch(content)).threw
          /\ ParseCandidate(TagMatch(content)).v # Undefined
  THEN ParseCandidate(TagMatch(content))
  ELSE ParseCandidate(BraceScan(content))

\* the try block
TryBlock(content) == ParseCandidate(JsonMatch(content))

\* Catch without the catch clause: the error of the try block leaves the
\* function
NoCatch(r) ==
  IF r.threw THEN Throw
  ELSE IF r.v = Undefined THEN Return(Null)
  ELSE Return(r.v)

\* the catch clause and the final `return null`
Catch(r) ==
  IF r.threw THEN Return(Null)
  ELSE IF r.v = Undefined THEN Return(Null)
  ELSE Return(r.v)

tryParseDatePlanJson(content) ==
  IF content = <<>> THEN Return(Null) ELSE Catch(TryBlock(content))

(***************************************************************************)
(* DatePlanDisplay: the view it renders, or the TypeError it raises.       *)
(***************************************************************************)
\* v > 0 for a length read with .length
Positive(v) == v.t = "number" /\ v.n > 0

\* formatTime raises when its argument is not a string: replace fails in the
\* try block and split fails in the catch block
FormatTimeThrows(x) == ~IsString(x)

\* one row of the itinerary table
ItemThrows(item) ==
  \/ Nullish(item)
  \/ FormatTimeThrows(Get(item, "start"))
  \/ FormatTimeThrows(Get(item, "end"))
  \/ Nullish(Get(item, "links"))

\* the section under a guard `x && x.length > 0 && x.map(...)` is rendered
ListShown(x) == Truthy(x) /\ Positive(Get(x, "length"))

\* one plan block
PlanThrows(plan) ==
  \/ Nullish(plan)
  \/ /\ Truthy(Get(plan, "budget_estimate_jpy"))
     /\ \/ Nullish(Get(Get(plan, "budget_estimate_jpy"), "min"))
        \/ Nullish(Get(Get(plan, "budget_estimate_jpy"), "max"))
  \/ /\ ListShown(Get(plan, "constraints_respected"))
     /\ ~HasMap(Get(plan, "constraints_respected"))
  \/ /\ ListShown(Get(plan, "itinerary"))
     /\ \/ ~HasMap(Get(plan, "itinerary"))
        \/ \E i \in 1..Len(Get(plan, "itinerary").a) :
             ItemThrows(Get(plan, "itinerary").a[i])

\* the block of the plan at planIndex (0-based, as in the map callback)
PlanBlock(plan, planIndex) ==
  [key |-> IF Truthy(Get(plan, "plan_id")) THEN Get(plan, "plan_id") ELSE Num(planIndex),
   badge |-> Get(plan, "plan_id"),
   table |-> ListShown(Get(plan, "itinerary"))]

\* MetaStrip without the test `!== 'unspecified'`
MetaStripUnspecified(meta) ==
  (IF Truthy(Get(meta, "meetup_time")) THEN <<"meetup_time">> ELSE <<>>)
  \o (IF Truthy(Get(meta, "breakup_time")) THEN <<"breakup_time">> ELSE <<>>)
  \o (IF Truthy(Get(meta, "transport_mode")) THEN <<"transport_mode">> ELSE <<>>)
  \o (IF Truthy(Get(meta, "assumed_date")) THEN <<"assumed_date">> ELSE <<>>)

\* the entries of the meta strip, in their order
MetaStrip(meta) ==
  (IF Truthy(Get(meta, "meetup_time")) THEN <<"meetup_time">> ELSE <<>>)
  \o (IF Truthy(Get(meta, "breakup_time")) THEN <<"breakup_time">> ELSE <<>>)
  \o (IF /\ Truthy(Get(meta, "transport_mode"))
         /\ Get(meta, "transport_mode") # Str(<<"unspecified">>)
      THEN <<"transport_mode">> ELSE <<>>)
  \o (IF Truthy(Get(meta, "assumed_date")) THEN <<"assumed_date">> ELSE <<>>)

View(kind, questions, hasMeta, meta, blocks, summary) ==
  [kind |-> kind, questions |-> questions, hasMeta |-> hasMeta, meta |-> meta,
   blocks |-> blocks, summary |-> summary]

Rendered(view) == [threw |-> FALSE, view |-> view]
RenderThrows == [threw |-> TRUE, view |-> View("none", <<>>, FALSE, <<>>, <<>>, FALSE)]

\* the clarification view: one list entry per clarifying question
ClarificationView(data) ==
  LET cq == Get(data, "clarifying_questions")
  IN IF Nullish(cq)
     THEN Rendered(View("clarification", <<>>, FALSE, <<>>, <<>>, FALSE))
     ELSE IF HasMap(cq)
     THEN Rendered(View("clarification", cq.a, FALSE, <<>>, <<>>, FALSE))
     ELSE RenderThrows

\* the plan view: meta strip, one block per plan, summary
PlansView(data) ==
  LET plans == Get(data, "plans")
      meta == Get(data, "meta")
      summary == Get(data, "markdown_summary")
  IN IF \/ ~HasMap(plans)
        \/ \E i \in 1..Len(plans.a) : PlanThrows(plans.a[i])
        \/ Truthy(summary) /\ ~IsString(summary)
     THEN RenderThrows
     ELSE Rendered(View("plans", <<>>, Truthy(meta),
                        IF Truthy(meta) THEN MetaStrip(meta) ELSE <<>>,
                        [i \in 1..Len(plans.a) |-> PlanBlock(plans.a[i], i - 1)],
                        Truthy(summary)))

\* DatePlanDisplay with the test of plans ahead of the test of status
DatePlanDisplayPlansFirst(data) ==
  IF Truthy(Get(data, "plans")) /\ Get(Get(data, "plans"), "length") # Num(0)
  THEN PlansView(data)
  ELSE IF Get(data, "status") = StatusNeedsClarification
  THEN ClarificationView(data)
  ELSE Rendered(View("no_plan", <<>>, FALSE, <<>>, <<>>, FALSE))

\* DatePlanDisplay without the notice for a payload that has no plan
DatePlanDisplayNoNotice(data) ==
  IF Get(data, "status") = StatusNeedsClarification
  THEN ClarificationView(data)
  ELSE PlansView(data)

DatePlanDisplay(data) ==
  IF Get(data, "status") = StatusNeedsClarification
  THEN ClarificationView(data)
  ELSE IF ~Truthy(Get(data, "plans")) \/ Get(Get(data, "plans"), "length") = Num(0)
  THEN Rendered(View("no_plan", <<>>, FALSE, <<>>, <<>>, FALSE))
  ELSE PlansView(data)

(***************************************************************************)
(* DatePlanDisplay: the texts of the plan view.  They depend on the        *)
(* viewer: the time zone of the runtime (Intl.DateTimeFormat is given no   *)
(* timeZone) and its default locale (toLocaleString is given no locale).   *)
(***************************************************************************)
\* The Japanese texts of the component are written in Latin letters.
\* a || b
Or(a, b) == IF Truthy(a) THEN a ELSE b

TypeKeys ==
  {"meetup", "move", "meal", "cafe", "activity", "shopping", "rest", "breakup",
   "other"}

typeLabels ==
  [k \in TypeKeys |->
     CASE k = "meetup" -> "shuugou" [] k = "move" -> "idou" [] k = "meal" -> "shokuji"
       [] k = "cafe" -> "kafe" [] k = "activity" -> "akutibiti"
       [] k = "shopping" -> "shoppingu" [] k = "rest" -> "kyuukei"
       [] k = "breakup" -> "kaisan" [] k = "other" -> "sonota"]

\* the class lists, each named by its background class
typeColors ==
  [k \in TypeKeys |->
     CASE k = "meetup" -> "bg-blue-100" [] k = "move" -> "bg-gray-100"
       [] k = "meal" -> "bg-orange-100" [] k = "cafe" -> "bg-amber-100"
       [] k = "activity" -> "bg-green-100" [] k = "shopping" -> "bg-purple-100"
       [] k = "rest" -> "bg-slate-100" [] k = "breakup" -> "bg-red-100"
       [] k = "other" -> "bg-neutral-100"]

\* table[key] for a key read from the payload: the entry of an own key,
\* undefined for every other key
Lookup(table, key) ==
  IF key.t = "string" /\ Len(key.s) = 1 /\ key.s[1] \in DOMAIN table
  THEN Str(<<table[key.s[1]]>>)
  ELSE Undefined

\* the type badge of an itinerary row: its text and its color class
TypeBadge(item) ==
  [label |-> Or(Lookup(typeLabels, Get(item, "type")), Get(item, "type")),
   color |-> Or(Lookup(typeColors, Get(item, "type")), Str(<<typeColors["other"]>>))]

\* two decimal digits
TwoDigits(n) == <<NumText(n \div 10)[1], NumText(n % 10)[1]>>

\* dateTimeStr.replace(' ', 'T'): the first space only
ReplaceSpace(s) ==
  IF IndexOf(s, SP) = 0 THEN s
  ELSE [k \in 1..Len(s) |-> IF k = IndexOf(s, SP) THEN "T" ELSE s[k]]

\* the text handed to new Date
DateText(s) == ReplaceSpace(s) \o <<":", "0", "0", "+", "0", "9", ":", "0", "0">>

IsLeap(y) == y % 4 = 0 /\ (y % 100 # 0 \/ y % 400 = 0)

DaysIn(y, mo) ==
  IF mo = 2 THEN (IF IsLeap(y) THEN 29 ELSE 28)
  ELSE IF mo \in {4, 6, 9, 11} THEN 30 ELSE 31

RECURSIVE DaysBefore(_, _)
DaysBefore(y, mo) == IF mo = 1 THEN 0 ELSE DaysBefore(y, mo - 1) + DaysIn(y, mo - 1)

\* the number written by the digits of s at positions a..b
RECURSIVE DigitsValue(_, _, _)
DigitsValue(s, a, b) ==
  IF a > b THEN 0 ELSE DigitsValue(s, a, b - 1) * 10 + DigitVal(s[b])

InvalidDate == [valid |-> FALSE, year |-> 0, minute |-> 0]

\* new Date(text) for a text YYYY-MM-DDTHH:mm:00+09:00: the instant, as the
\* year and the minute of that year in UTC.  Every other text is an Invalid
\* Date (the payloads of the model hold no text in another date format)
DateParse(t) ==
  IF /\ Len(t) = 25
     /\ \A k \in {1, 2, 3, 4, 6, 7, 9, 10, 12, 13, 15, 16} : t[k] \in Digits
     /\ t[5] = "-" /\ t[8] = "-" /\ t[11] = "T" /\ t[14] = ":"
     /\ DigitsValue(t, 6, 7) \in 1..12
     /\ DigitsValue(t, 9, 10) \in 1..DaysIn(DigitsValue(t, 1, 4), DigitsValue(t, 6, 7))
     /\ DigitsValue(t, 12, 13) \in 0..23
     /\ DigitsValue(t, 15, 16) \in 0..59
  THEN [valid |-> TRUE,
        year |-> DigitsValue(t, 1, 4),
        minute |-> ((DaysBefore(DigitsValue(t, 1, 4), DigitsValue(t, 6, 7))
                       + DigitsValue(t, 9, 10) - 1) * 24
                    + DigitsValue(t, 12, 13)) * 60
                   + DigitsValue(t, 15, 16) - 540]
  ELSE InvalidDate

\* the local fields of an instant in a time zone tz minutes east of UTC (for
\* an instant whose local time lies in its year)
LocalFields(date, tz) ==
  LET local == date.minute + tz
      doy == local \div 1440
      mo == Max({m \in 1..12 : DaysBefore(date.year, m) <= doy})
  IN [month |-> mo, day |-> doy - DaysBefore(date.year, mo) + 1,
      hour |-> (local % 1440) \div 60, minute |-> local % 60]

\* Intl.DateTimeFormat('ja-JP', {hour: '2-digit', minute: '2-digit'})
HourMinute(f) == TwoDigits(f.hour) \o <<":">> \o TwoDigits(f.minute)

\* Intl.DateTimeFormat('ja-JP', {month: 'numeric', day: 'numeric',
\* hour: '2-digit', minute: '2-digit'})
MonthDayHourMinute(f) ==
  NumText(f.month) \o <<"/">> \o NumText(f.day) \o <<SP>> \o HourMinute(f)

\* dateTimeStr.split(' ')[1]
SplitSecond(s) ==
  LET first == IndexOf(s, SP)
      rest == Sub(s, first + 1, Len(s))
  IN IF first = 0 THEN Undefined
     ELSE IF IndexOf(rest, SP) = 0 THEN Str(rest)
     ELSE Str(Sub(rest, 1, IndexOf(rest, SP) - 1))

\* formatTime of a string: the hour and minute in the viewer's time zone;
\* format raises a RangeError on an Invalid Date and the catch block answers
FormatTimeOf(date, dateTimeStr, tz) ==
  IF date.valid THEN Str(HourMinute(LocalFields(date, tz)))
  ELSE Or(SplitSecond(dateTimeStr.s), dateTimeStr)

formatTime(dateTimeStr, tz) ==
  FormatTimeOf(DateParse(DateText(dateTimeStr.s)), dateTimeStr, tz)

\* formatDateTime: the catch block answers for every value that is no
\* well-formed timestamp
FormatDateTimeOf(date, dateTimeStr, tz) ==
  IF date.valid THEN Str(MonthDayHourMinute(LocalFields(date, tz)))
  ELSE dateTimeStr

formatDateTime(dateTimeStr, tz) ==
  IF ~IsString(dateTimeStr) THEN dateTimeStr
  ELSE FormatDateTimeOf(DateParse(DateText(dateTimeStr.s)), dateTimeStr, tz)

\* the narrow no-break space U+202F
NNBSP == "U+202F"

\* the grouping of digits in the number format of a locale: the separator,
\* the size of the groups left of the first one, and the number of digits
\* that must stand left of the first separator
NumberFormat(locale) ==
  CASE locale = "en-US" -> [sep |-> ",", rest |-> 3, minimum |-> 1]
    [] locale = "ja-JP" -> [sep |-> ",", rest |-> 3, minimum |-> 1]
    [] locale = "de-DE" -> [sep |-> ".", rest |-> 3, minimum |-> 1]
    [] locale = "fr-FR" -> [sep |-> NNBSP, rest |-> 3, minimum |-> 1]
    [] locale = "es-ES" -> [sep |-> ".", rest |-> 3, minimum |-> 2]
    [] locale = "en-IN" -> [sep |-> ",", rest |-> 2, minimum |-> 1]

\* the digits d with a separator before the last `size` digits and before
\* every `rest` digits left of them
RECURSIVE GroupDigits(_, _, _, _)
GroupDigits(d, size, rest, sep) ==
  IF Len(d) <= size THEN d
  ELSE GroupDigits(Sub(d, 1, Len(d) - size), rest, rest, sep)
       \o <<sep>> \o Sub(d, Len(d) - size + 1, Len(d))

FormatDigits(d, f) ==
  IF Len(d) < 3 + f.minimum THEN d ELSE GroupDigits(d, 3, f.rest, f.sep)

\* ToLocaleString as String(v): the digits without grouping
ToLocaleStringPlain(v, locale) ==
  IF v.t = "number" THEN NumText(v.n) ELSE v.s

\* v.toLocaleString() in the default locale of the runtime, for a
\* non-negative integer or a string
ToLocaleString(v, locale) ==
  IF v.t = "number" THEN FormatDigits(NumText(v.n), NumberFormat(locale))
  ELSE v.s

\* the yen sign and the wave dash of the budget line
YEN == "yen"
WAVE == "~"

\* the budget line: yen sign, min.toLocaleString(), wave dash, yen sign,
\* max.toLocaleString()
BudgetText(budget, locale) ==
  <<YEN>> \o ToLocaleString(Get(budget, "min"), locale)
  \o <<SP, WAVE, SP, YEN>> \o ToLocaleString(Get(budget, "max"), locale)

\* the text shown for a transport mode
TransportLabel(mode) ==
  IF mode = Str(<<"walk">>) THEN Str(<<"toho">>)
  ELSE IF mode = Str(<<"transit">>) THEN Str(<<"koukyou koutsuu">>)
  ELSE IF mode = Str(<<"car">>) THEN Str(<<"kuruma">>)
  ELSE mode

\* one entry of the meta strip: its heading and its text
MetaEntry(meta, field, tz) ==
  CASE field = "meetup_time" ->
         [field |-> field, label |-> "shuugou",
          text |-> formatDateTime(Get(meta, "meetup_time"), tz)]
    [] field = "breakup_time" ->
         [field |-> field, label |-> "kaisan",
          text |-> formatDateTime(Get(meta, "breakup_time"), tz)]
    [] field = "transport_mode" ->
         [field |-> field, label |-> "koutsuu shudan",
          text |-> TransportLabel(Get(meta, "transport_mode"))]
    [] field = "assumed_date" ->
         [field |-> field, label |-> "hizuke", text |-> Get(meta, "assumed_date")]

MetaEntries(meta, fields, tz) ==
  [i \in 1..Len(fields) |-> MetaEntry(meta, fields[i], tz)]

\* the pattern pat stands in s at position i
MatchesAt(s, i, pat) ==
  /\ i + Len(pat) - 1 <= Len(s)
  /\ \A k \in 1..Len(pat) : s[i + k - 1] = pat[k]

\* where the lazy (.*?) of a pattern ends: the first position at or after
\* `from` where `close` stands, no line terminator before it (0: none)
CloseAt(s, from, close) ==
  LET ends == {j \in from..Len(s) :
                 /\ MatchesAt(s, j, close)
                 /\ \A k \in from..(j - 1) : s[k] # NL}
  IN IF ends = {} THEN 0 ELSE Min(ends)

\* s.replace(/open(.*?)close/g, tagOpen + '$1' + tagClose), from position i
RECURSIVE ReplaceAll(_, _, _, _, _, _)
RECURSIVE ReplaceAt(_, _, _, _, _, _, _)
ReplaceAt(s, i, j, open, close, tagOpen, tagClose) ==
  IF j = 0 THEN <<s[i]>> \o ReplaceAll(s, i + 1, open, close, tagOpen, tagClose)
  ELSE tagOpen \o Sub(s, i + Len(open), j - 1) \o tagClose
       \o ReplaceAll(s, j + Len(close), open, close, tagOpen, tagClose)

ReplaceAll(s, i, open, close, tagOpen, tagClose) ==
  IF i > Len(s) THEN <<>>
  ELSE IF MatchesAt(s, i, open)
  THEN ReplaceAt(s, i, CloseAt(s, i + Len(open), close), open, close,
                 tagOpen, tagClose)
  ELSE <<s[i]>> \o ReplaceAll(s, i + 1, open, close, tagOpen, tagClose)

\* .replace(/\n/g, '<br>')
ReplaceNewlines(s) == [k \in 1..Len(s) |-> IF s[k] = NL THEN "<br>" ELSE s[k]]

\* .replace(/## (.*?)\n/g, '<h2>$1</h2>')
ReplaceH2(s) == ReplaceAll(s, 1, <<"#", "#", SP>>, <<NL>>, <<"<h2>">>, <<"</h2>">>)

\* .replace(/### (.*?)\n/g, '<h3>$1</h3>')
ReplaceH3(s) ==
  ReplaceAll(s, 1, <<"#", "#", "#", SP>>, <<NL>>, <<"<h3>">>, <<"</h3>">>)

\* .replace(/\*\*(.*?)\*\*/g, '<strong>$1</strong>')
ReplaceBold(s) ==
  ReplaceAll(s, 1, <<"*", "*">>, <<"*", "*">>, <<"<strong>">>, <<"</strong>">>)

\* .replace(/\*(.*?)\*/g, '<em>$1</em>')
ReplaceItalic(s) == ReplaceAll(s, 1, <<"*">>, <<"*">>, <<"<em>">>, <<"</em>">>)

\* the markup of the summary section: the chain of the five replacements
SummaryHtml(s) ==
  ReplaceItalic(ReplaceBold(ReplaceH3(ReplaceH2(ReplaceNewlines(s)))))

\* one row of the itinerary table
ItemRow(item, tz) ==
  [start |-> formatTime(Get(item, "start"), tz),
   end |-> formatTime(Get(item, "end"), tz),
   badge |-> TypeBadge(item)]

ItemRows(itinerary, tz) ==
  [i \in 1..Len(itinerary.a) |-> ItemRow(itinerary.a[i], tz)]

\* the texts of one plan block: the identifier badge, the budget line (empty
\* without a budget) and the rows of the table
PlanTexts(plan, viewer) ==
  [badge |-> Get(plan, "plan_id"),
   budget |-> IF Truthy(Get(plan, "budget_estimate_jpy"))
              THEN BudgetText(Get(plan, "budget_estimate_jpy"), viewer.locale)
              ELSE <<>>,
   rows |-> IF ListShown(Get(plan, "itinerary"))
            THEN ItemRows(Get(plan, "itinerary"), viewer.tz)
            ELSE <<>>]

NoTexts == [meta |-> <<>>, plans |-> <<>>, summary |-> <<>>]

\* the texts of the plan view
PlanViewTexts(data, viewer) ==
  [meta |-> IF Truthy(Get(data, "meta"))
            THEN MetaEntries(Get(data, "meta"), MetaStrip(Get(data, "meta")),
                             viewer.tz)
            ELSE <<>>,
   plans |-> [i \in 1..Len(Get(data, "plans").a) |->
                PlanTexts(Get(data, "plans").a[i], viewer)],
   summary |-> IF Truthy(Get(data, "markdown_summary"))
               THEN SummaryHtml(Get(data, "markdown_summary").s)
               ELSE <<>>]


(***************************************************************************)
(* ChatResponseMessage: what one render of a message computes.             *)
(***************************************************************************)
\* the render: the extractor runs on a non-empty content before the view
\* is chosen; the first of loader, error alert, itinerary, markdown applies
\* (the markdown view is handed the content of the message)
\* what one render leaves behind
Result(called, extraction, threw, view) ==
  [called |-> called, extractorThrew |-> extraction.threw,
   datePlanData |-> extraction.v, threw |-> threw, view |-> view]

\* `<DatePlanDisplay data={datePlanData} />`
Itinerary(called, extraction, display) ==
  Result(called, extraction, display.threw,
         [kind |-> "itinerary", display |-> display.view])

\* line 101: the extractor is called on a content that is not empty
Extraction(message) ==
  IF message.content # <<>> THEN tryParseDatePlanJson(message.content)
  ELSE Return(Null)

\* ChooseView without the itinerary branch
ChooseViewNoItinerary(message, called, extraction) ==
  IF extraction.threw THEN Result(called, extraction, TRUE, [kind |-> "none"])
  ELSE IF message.in_progress
  THEN Result(called, extraction, FALSE, [kind |-> "loader"])
  ELSE IF Truthy(message.error)
  THEN Result(called, extraction, FALSE, [kind |-> "error", text |-> message.error])
  ELSE Result(called, extraction, FALSE,
              [kind |-> "markdown", content |-> message.content])

\* ChooseView that tests the error before in_progress
ChooseViewErrorFirst(message, called, extraction) ==
  IF extraction.threw THEN Result(called, extraction, TRUE, [kind |-> "none"])
  ELSE IF Truthy(message.error)
  THEN Result(called, extraction, FALSE, [kind |-> "error", text |-> message.error])
  ELSE IF message.in_progress
  THEN Result(called, extraction, FALSE, [kind |-> "loader"])
  ELSE IF Truthy(extraction.v)
  THEN Itinerary(called, extraction, DatePlanDisplay(extraction.v))
  ELSE Result(called, extraction, FALSE,
              [kind |-> "markdown", content |-> message.content])

\* the JSX: the first of loader, error alert, itinerary, markdown applies
\* (the markdown view is handed the content of the message)
ChooseView(message, called, extraction) ==
  IF extraction.threw THEN Result(called, extraction, TRUE, [kind |-> "none"])
  ELSE IF message.in_progress
  THEN Result(called, extraction, FALSE, [kind |-> "loader"])
  ELSE IF Truthy(message.error)
  THEN Result(called, extraction, FALSE, [kind |-> "error", text |-> message.error])
  ELSE IF Truthy(extraction.v)
  THEN Itinerary(called, extraction, DatePlanDisplay(extraction.v))
  ELSE Result(called, extraction, FALSE,
              [kind |-> "markdown", content |-> message.content])

\* the texts a render shows: those of the plan view when DatePlanDisplay
\* rendered it
RenderedTexts(r, viewer) ==
  IF r.view.kind = "itinerary" /\ ~r.threw /\ r.view.display.kind = "plans"
  THEN PlanViewTexts(r.datePlanData, viewer)
  ELSE NoTexts

\* the render: the extractor runs before the view is chosen
ChatResponseMessage(message) ==
  ChooseView(message, message.content # <<>>, Extraction(message))

(***************************************************************************)
(* The messages the model renders.  A content is a main segment, a JSON    *)
(* text in one of four wrappings, alone or with other segments around it.  *)
(***************************************************************************)
\* how many segments stand around the main segment
MaxSurround == 1

Fence == <<BT, BT, BT>>

\* an object with the given status, plans and clarifying_questions; a
\* property whose value is Undefined is left out
MkPayload(status, plans, cq) ==
  LET o1 == IF status = Undefined THEN <<>> ELSE Put(<<>>, <<"status">>, status)
      o2 == IF plans = Undefined THEN o1 ELSE Put(o1, <<"plans">>, plans)
      o3 == IF cq = Undefined THEN o2 ELSE Put(o2, <<"clarifying_questions">>, cq)
  IN Obj(o3)

Field(k, v) == Put(<<>>, <<k>>, v)

PlanA == Obj(Field("plan_id", Str(<<"A">>)))
\* an itinerary item without links
PlanNoLinks ==
  Obj(Field("itinerary",
            Arr(<<Obj(Put(Field("start", Str(<<"t">>)), <<"end">>, Str(<<"t">>)))>>)))

StatusChoices == {Undefined, StatusOk, StatusNeedsClarification, Str(<<"x">>)}
PlansChoices ==
  {Undefined, Null, Str(<<>>), Num(0), Bool(FALSE), Arr(<<>>),
   Arr(<<PlanA>>), Arr(<<PlanA, PlanA>>), Arr(<<Null>>), Arr(<<PlanNoLinks>>),
   Str(<<"x">>), Arr(<<Str(<<RB, BT, BT, BT>>)>>)}
QuestionChoices ==
  {Undefined, Null, Arr(<<>>), Arr(<<Str(<<"A?">>), Str(<<"B?">>)>>),
   Str(<<"x">>), Arr(<<Str(<<RB, BT, BT, BT>>)>>)}

\* a payload that has every top-level field
FullPayload(status) ==
  Obj(Put(Put(MkPayload(status, Arr(<<PlanA>>),
                        Arr(<<Str(<<"A?">>), Str(<<"B?">>)>>)).o,
              <<"meta">>, Obj(Field("transport_mode", Str(<<"walk">>)))),
          <<"markdown_summary">>, Str(<<"s">>)))

Payloads ==
  {MkPayload(st, pl, cq) : st \in StatusChoices, pl \in PlansChoices,
                           cq \in QuestionChoices}
  \cup {FullPayload(st) : st \in StatusChoices \ {Undefined}}

OkPayload == MkPayload(StatusOk, Arr(<<PlanA>>), Undefined)
QuestionPayload ==
  MkPayload(StatusNeedsClarification, Undefined, Arr(<<Str(<<"A?">>), Str(<<"B?">>)>>))
OtherPayload == MkPayload(Str(<<"x">>), Arr(<<PlanA>>), Undefined)

\* a text cut off n units before its end
CutOff(text, n) == Sub(text, 1, Len(text) - n)

\* the JSON text of the payload cut off in the middle of the object: 1 to
\* 3 units before its end, and right after the "}" that closes its plan
Truncations ==
  {CutOff(Stringify(OkPayload), 1), CutOff(Stringify(OkPayload), 2),
   CutOff(Stringify(OkPayload), 3),
   Sub(Stringify(OkPayload), 1, IndexOf(Stringify(OkPayload), RB))}

\* texts that are no JSON: prose, nothing at all, truncated payloads
BrokenBodies == {<<>>, <<"x">>, <<LB, "x", RB>>} \cup Truncations

Wrappings == {"bare", "fenced", "fenced_json", "tagged"}

Wrap(w, body) ==
  CASE w = "bare" -> body
    [] w = "fenced" -> Fence \o body \o Fence
    [] w = "fenced_json" -> Fence \o <<"json", NL>> \o body \o <<NL>> \o Fence
    [] w = "tagged" -> <<"json", SP>> \o body

\* what may stand before or after the main segment
Segments ==
  {<<"x">>, <<NL>>, <<LB>>, <<RB>>, Fence, <<LB, RB>>,
   Fence \o <<LB, RB>> \o Fence,
   Stringify(QuestionPayload),
   <<NL, "json", SP>> \o Stringify(QuestionPayload)}

RECURSIVE Concat(_)
Concat(parts) == IF parts = <<>> THEN <<>> ELSE Head(parts) \o Concat(Tail(parts))

SegmentLists(n) == UNION {[1..k -> Segments] : k \in 0..n}

\* the segments before and after the main segment
Surroundings ==
  {pp \in SegmentLists(MaxSurround) \X SegmentLists(MaxSurround) :
     Len(pp[1]) + Len(pp[2]) <= MaxSurround}

NoSource == Undefined

\* an input: the content and how it was built (source is the value whose
\* JSON text is the main segment, NoSource for a body that is no JSON)
Input(w, source, body, pre, post) ==
  [wrapping |-> w, source |-> source, pre |-> pre, post |-> post,
   content |-> Concat(pre) \o Wrap(w, body) \o Concat(post)]

Inputs ==
  {Input(w, p, Stringify(p), <<>>, <<>>) : w \in Wrappings, p \in Payloads}
  \cup {Input(w, NoSource, b, <<>>, <<>>) : w \in Wrappings, b \in BrokenBodies}
  \cup {Input(w, p, Stringify(p), pp[1], pp[2]) :
          w \in Wrappings, p \in {OkPayload, QuestionPayload, OtherPayload},
          pp \in Surroundings}
  \cup {Input(w, NoSource, b, pp[1], pp[2]) :
          w \in Wrappings, b \in {CutOff(Stringify(OkPayload), 1), <<"x">>},
          pp \in Surroundings}

NoError == Undefined
Errors == {NoError, Str(<<"failed">>)}

(***************************************************************************)
(* The payloads DatePlanDisplay is rendered with, and the viewers.         *)
(***************************************************************************)
\* how many plans a payload holds, how many pieces a summary is made of
MaxPlans == 2
MaxPieces == 2

\* an object with the given properties; a property whose value is
\* Undefined is left out
RECURSIVE MkObj(_)
MkObj(props) ==
  IF props = <<>> THEN <<>>
  ELSE IF Head(props)[2] = Undefined THEN MkObj(Tail(props))
  ELSE Put(MkObj(Tail(props)), <<Head(props)[1]>>, Head(props)[2])

\* the text "2024-MM-DD HH:MM"
Timestamp(mo, d, h, mi) ==
  Str(<<"2", "0", "2", "4", "-">> \o TwoDigits(mo) \o <<"-">> \o TwoDigits(d)
      \o <<SP>> \o TwoDigits(h) \o <<":">> \o TwoDigits(mi))

Timestamps ==
  {Timestamp(5, 1, 10, 0), Timestamp(5, 1, 0, 0), Timestamp(5, 1, 23, 30),
   Timestamp(2, 29, 9, 5)}

ItemTypes ==
  {Str(<<k>>) : k \in TypeKeys} \cup {Str(<<"unknown_type_xyz">>), Str(<<>>), Undefined}

Item(type, start) ==
  Obj(MkObj(<<
    <<"start", start>>, <<"end", Timestamp(5, 1, 23, 30)>>, <<"type", type>>,
    <<"name", Str(<<"x">>)>>, <<"area", Str(<<"x">>)>>, <<"links", EmptyObj>> >>))

Plan(planId, budget, itinerary) ==
  Obj(MkObj(<<
    <<"plan_id", planId>>, <<"title", Str(<<"x">>)>>,
    <<"budget_estimate_jpy", budget>>, <<"itinerary", itinerary>> >>))

Budget(min, max) == Obj(MkObj(<< <<"min", Num(min)>>, <<"max", Num(max)>> >>))

Budgets == {Budget(5000, 12000), Budget(0, 999), Budget(1000, 100000),
            Budget(999, 1234567)}

PlanIds == {Undefined, Str(<<>>), Str(<<"A">>), Str(<<"B">>)}

PlanLists ==
  UNION {[1..n -> {Plan(id, Undefined, Undefined) : id \in PlanIds}] : n \in 1..MaxPlans}

MetaOf(meetup, breakup, transport, assumed) ==
  Obj(MkObj(<<
    <<"meetup_time", meetup>>, <<"breakup_time", breakup>>,
    <<"transport_mode", transport>>, <<"assumed_date", assumed>> >>))

TransportModes ==
  {Undefined, Str(<<"unspecified">>), Str(<<"walk">>), Str(<<"transit">>),
   Str(<<"car">>), Str(<<"bicycle">>)}

Metas ==
  {MetaOf(me, br, tr, ad) :
     me \in {Undefined, Str(<<>>), Timestamp(5, 1, 10, 0)},
     br \in {Undefined, Timestamp(5, 1, 23, 30)},
     tr \in TransportModes,
     ad \in {Undefined, Str(<<"2024-05-01">>)}}

MetaFull ==
  MetaOf(Timestamp(5, 1, 10, 0), Timestamp(5, 1, 23, 30), Str(<<"walk">>),
         Str(<<"2024-05-01">>))

Pieces ==
  {<<"#", "#", SP, "T", NL>>, <<"#", "#", "#", SP, "T", NL>>,
   <<"*", "*", "x", "*", "*">>, <<"*", "x", "*">>, <<"T">>, <<NL>>, <<"*">>}

Summaries ==
  {Concat(ps) : ps \in UNION {[1..n -> Pieces] : n \in 1..MaxPieces}}

DisplayPayload(status, plans, cq, meta, summary) ==
  Obj(MkObj(<<
    <<"status", status>>, <<"plans", plans>>, <<"clarifying_questions", cq>>,
    <<"meta", meta>>, <<"markdown_summary", summary>> >>))

\* a payload with status "ok", the given plans, meta and summary
OkDisplay(plans, meta, summary) ==
  DisplayPayload(StatusOk, plans, Undefined, meta, summary)

DisplayData ==
  {DisplayPayload(st, pl, cq, me, su) :
     st \in StatusChoices, pl \in {Undefined, Null, Arr(<<>>)},
     cq \in {Undefined, Arr(<<Str(<<"A?">>)>>)}, me \in {Undefined, MetaFull},
     su \in {Undefined, Str(<<"T">>)}}
  \cup {OkDisplay(Arr(<<Plan(Str(<<"A">>), Undefined, Arr(<<Item(ty, ts)>>))>>),
                  Undefined, Undefined) : ty \in ItemTypes, ts \in Timestamps}
  \cup {OkDisplay(Arr(pl), Undefined, Undefined) : pl \in PlanLists}
  \cup {OkDisplay(Arr(<<PlanA>>), me, Undefined) : me \in Metas \cup {Null}}
  \cup {OkDisplay(Arr(<<PlanA>>), Undefined, Str(su)) : su \in Summaries}
  \cup {OkDisplay(Arr(<<Plan(Str(<<"A">>), b, Undefined)>>), Undefined, Undefined) :
          b \in Budgets}

\* the offsets from UTC, in minutes, of the time zones of the viewers
TimeZones == {540, 0, -300, 600}
Locales == {"ja-JP", "en-US", "de-DE", "fr-FR", "es-ES", "en-IN"}

Viewers == [tz : TimeZones, locale : Locales]

\* a viewer in Japan
TokyoViewer == [tz |-> 540, locale |-> "ja-JP"]

(***************************************************************************)
(* State: one message and what its render produced.                        *)
(***************************************************************************)
VARIABLES
  input,            \* how the content of the message was built
  message,          \* the message prop: content, in_progress, error
  pc,               \* "mounted" before the render, "rendered" after it
  extractorCalled,  \* tryParseDatePlanJson was invoked during the render
  extractorThrew,   \* that invocation ended with an error instead of a value
  datePlanData,     \* the value of datePlanData in the render
  view,             \* the view the render shows
  raised,           \* the render ended with an uncaught error
  viewer,           \* the runtime of the browser: time zone and locale
  texts             \* the texts of the plan view the render shows

(***************************************************************************)
(* The chat: the query caches written by usePostMessage and                *)
(* useChatMessages, and the pending flag of Chat that ChatPromptInput      *)
(* sets around a post.                                                     *)
(***************************************************************************)
\* how many posts and refetches are issued, how many messages a post returns
MaxPosts == 1
MaxFetches == 2
MaxReturned == 2

ChatIds == {"a", "b"}
\* useParams without a chatId in the route
NoChatId == ""
Routes == ChatIds \cup {NoChatId}

\* an entry of the query cache: no data yet, or a list
NoData == [has |-> FALSE, data |-> <<>>]
Data(list) == [has |-> TRUE, data |-> list]

\* the default parameter of the updaters: `(oldData = [])`
OrEmpty(oldData) == IF oldData.has THEN oldData.data ELSE <<>>

\* the messages and chats of the backend
Stamp(n) == 10 * n
Message(n) == [uuid |-> n, created_at |-> Stamp(n)]
Chat(id, t) == [uuid |-> id, updated_at |-> t]
\* the k messages the backend creates from uuid n on
RECURSIVE NewMessages(_, _)
NewMessages(n, k) ==
  IF k = 0 THEN <<>> ELSE <<Message(n)>> \o NewMessages(n + 1, k - 1)

\* the updater of the message list with the old list dropped
ReplaceMessages(oldData, data) == Data(data)

\* the updater of the message list: [...oldData, ...data]
AppendMessages(oldData, data) == Data(OrEmpty(oldData) \o data)

\* data[data.length - 1].created_at
LastCreatedAt(data) ==
  IF data = <<>> THEN Throw ELSE Return(data[Len(data)].created_at)

\* the updater of the chat list: the chat of the post gets the created_at
\* of the last returned message
TouchChat(oldData, chatId, data) ==
  IF /\ \E i \in 1..Len(OrEmpty(oldData)) : OrEmpty(oldData)[i].uuid = chatId
     /\ LastCreatedAt(data).threw
  THEN [threw |-> TRUE, cache |-> oldData]
  ELSE [threw |-> FALSE,
        cache |-> Data([i \in 1..Len(OrEmpty(oldData)) |->
                          IF OrEmpty(oldData)[i].uuid = chatId
                          THEN [OrEmpty(oldData)[i] EXCEPT
                                  !.updated_at = LastCreatedAt(data).v]
                          ELSE OrEmpty(oldData)[i]])]

\* onSuccess of usePostMessage: the two setQueryData calls in their order
OnSuccess(messages, chats, chatId, data) ==
  [messages |-> [messages EXCEPT ![chatId] = AppendMessages(@, data)],
   chats |-> TouchChat(chats, chatId, data).cache,
   threw |-> TouchChat(chats, chatId, data).threw]

\* error?.message || 'Failed to send message'
ErrorMessages == {"", "Network Error"}
ToastText(error) == IF error # "" THEN error ELSE "Failed to send message"

\* the context of the mutation: usePostMessage has no onMutate, so the
\* context handed to onError is undefined
NoContext == [has |-> FALSE]

\* onError that empties the message lists
OnErrorResets(messages, toasts, error, context) ==
  [messages |-> [c \in DOMAIN messages |-> NoData],
   toasts |-> Append(toasts, ToastText(error))]

\* onError of usePostMessage: restore when the context holds a list, toast
OnError(messages, toasts, error, context) ==
  [messages |-> IF context.has
                THEN [messages EXCEPT ![context.chatId] = context.previousMessages]
                ELSE messages,
   toasts |-> Append(toasts, ToastText(error))]

\* mutationFn of usePostMessage: without a chatId it throws, else it posts
MutationFn(chatId) == IF chatId = NoChatId THEN Throw ELSE Return(chatId)

\* setPendingMessage that does not lower the flag again
SetPendingMessageOnce(current, value) == current \/ value

\* setPendingMessage of Chat: hasPendingMessageRequest.current = value
SetPendingMessage(current, value) == value

\* the finally block of handleSubmit
Finally(flag) == [inputText |-> "", pendingFlag |-> SetPendingMessage(flag, FALSE)]

VARIABLES
  routeChatId,      \* the chatId of the route (useParams)
  server,           \* the messages the backend stores for each chat
  nextId,           \* the uuid the backend gives its next message
  messagesCache,    \* the query cache under chatKeys.messages(chatId)
  chatListCache,    \* the query cache under chatKeys.chatList()
  posts,            \* the posts in flight
  fetches,          \* the refetches of a message list in flight
  postsIssued,      \* how many times mutateAsync was called
  fetchesIssued,    \* how many refetches were started
  inputText,        \* the message state of ChatPromptInput
  pendingFlag,      \* hasPendingMessageRequest.current of Chat
  toasts            \* the error toasts raised so far

chatVars ==
  <<routeChatId, server, nextId, messagesCache, chatListCache, posts, fetches,
    postsIssued, fetchesIssued, inputText, pendingFlag, toasts>>

\* what the backend holds when the page is opened
InitialServer == [c \in ChatIds |-> IF c = "a" THEN <<Message(1)>> ELSE <<>>]

\* no chat is open
ChatIdle ==
  /\ routeChatId = NoChatId
  /\ server = InitialServer
  /\ nextId = 2
  /\ messagesCache = [c \in ChatIds |-> NoData]
  /\ chatListCache = NoData
  /\ posts = {}
  /\ fetches = {}
  /\ postsIssued = 0
  /\ fetchesIssued = 0
  /\ inputText = ""
  /\ pendingFlag = FALSE
  /\ toasts = <<>>

vars ==
  <<input, message, pc, extractorCalled, extractorThrew, datePlanData, view,
    raised, viewer, texts, chatVars>>

NoView == [kind |-> "none"]

Init ==
  /\ input \in Inputs
  /\ \E ip \in BOOLEAN, err \in Errors :
       message = [content |-> input.content, in_progress |-> ip, error |-> err]
  /\ pc = "mounted"
  /\ extractorCalled = FALSE
  /\ extractorThrew = FALSE
  /\ datePlanData = Null
  /\ view = NoView
  /\ raised = FALSE
  /\ viewer = TokyoViewer
  /\ texts = NoTexts
  /\ ChatIdle

\* the state after a render with result r
Rendering(r) ==
  /\ extractorCalled' = r.called
  /\ extractorThrew' = r.extractorThrew
  /\ datePlanData' = r.datePlanData
  /\ view' = r.view
  /\ raised' = r.threw
  /\ texts' = RenderedTexts(r, viewer)

\* one render of ChatResponseMessage
Render ==
  /\ pc = "mounted"
  /\ Rendering(ChatResponseMessage(message))
  /\ pc' = "rendered"
  /\ UNCHANGED <<input, message, viewer, chatVars>>

Next == Render

Spec == Init /\ [][Next]_vars

(***************************************************************************)
(* DatePlanDisplay on its own: the component is handed a payload as its    *)
(* data prop and rendered once in the runtime of a viewer.                 *)
(***************************************************************************)
DisplayInit ==
  /\ datePlanData \in DisplayData
  /\ viewer \in Viewers
  /\ input = Input("bare", NoSource, <<>>, <<>>, <<>>)
  /\ message = [content |-> <<>>, in_progress |-> FALSE, error |-> NoError]
  /\ pc = "mounted"
  /\ extractorCalled = FALSE
  /\ extractorThrew = FALSE
  /\ view = NoView
  /\ raised = FALSE
  /\ texts = NoTexts
  /\ ChatIdle

\* one render of `<DatePlanDisplay data={datePlanData} />`
Display ==
  /\ pc = "mounted"
  /\ Rendering(Itinerary(FALSE, Return(datePlanData), DatePlanDisplay(datePlanData)))
  /\ pc' = "rendered"
  /\ UNCHANGED <<input, message, viewer, chatVars>>

DisplayNext == Display

DisplaySpec == DisplayInit /\ [][DisplayNext]_vars

(***************************************************************************)
(* The chat page: one ChatPromptInput on the route of a chat, posts and    *)
(* refetches in flight, and the callbacks that run when they settle.  A    *)
(* ref does not cause a render, so the textarea and the send button,       *)
(* disabled by the flag as of the last render of Chat, can still submit    *)
(* while a post is in flight.                                              *)
(***************************************************************************)
renderVars ==
  <<input, message, pc, extractorCalled, extractorThrew, datePlanData, view,
    raised, viewer, texts>>

\* the chat lists the cache may hold when the page is opened
ChatLists ==
  {NoData, Data(<<Chat("a", 0), Chat("b", 0)>>), Data(<<Chat("b", 0)>>)}

\* the message lists are not loaded yet, or hold what the backend holds
MessageCaches ==
  {[c \in ChatIds |-> NoData], [c \in ChatIds |-> Data(InitialServer[c])]}

ChatInit ==
  /\ routeChatId \in Routes
  /\ server = InitialServer
  /\ nextId = 2
  /\ messagesCache \in MessageCaches
  /\ chatListCache \in ChatLists
  /\ posts = {}
  /\ fetches = {}
  /\ postsIssued = 0
  /\ fetchesIssued = 0
  /\ inputText = ""
  /\ pendingFlag = FALSE
  /\ toasts = <<>>
  /\ input = Input("bare", NoSource, <<>>, <<>>, <<>>)
  /\ message = [content |-> <<>>, in_progress |-> FALSE, error |-> NoError]
  /\ pc = "chat"
  /\ extractorCalled = FALSE
  /\ extractorThrew = FALSE
  /\ datePlanData = Null
  /\ view = NoView
  /\ raised = FALSE
  /\ viewer = TokyoViewer
  /\ texts = NoTexts

\* the posts to chat c are marked: the cache of c was written while they
\* were in flight
Disturb(ps, c) ==
  {IF q.chatId = c THEN [q EXCEPT !.undisturbed = FALSE] ELSE q : q \in ps}

\* onChange of the textarea: the user types a message
Type ==
  /\ inputText = ""
  /\ inputText' = "hi"
  /\ UNCHANGED <<routeChatId, server, nextId, messagesCache, chatListCache,
                 posts, fetches, postsIssued, fetchesIssued, pendingFlag,
                 toasts, renderVars>>

\* handleSubmit with an empty message: nothing happens
SubmitEmpty ==
  /\ inputText = ""
  /\ UNCHANGED <<routeChatId, server, nextId, messagesCache, chatListCache,
                 posts, fetches, postsIssued, fetchesIssued, inputText,
                 pendingFlag, toasts, renderVars>>

\* handleSubmit with a message, up to the await: the flag is raised, then
\* mutateAsync is called and the request leaves
Submit ==
  /\ inputText # ""
  /\ postsIssued < MaxPosts
  /\ ~MutationFn(routeChatId).threw
  /\ pendingFlag' = SetPendingMessage(pendingFlag, TRUE)
  /\ posts' = posts \cup
       {[id |-> postsIssued + 1, chatId |-> MutationFn(routeChatId).v,
         phase |-> "sent", data |-> <<>>,
         flagAtIssue |-> SetPendingMessage(pendingFlag, TRUE),
         cacheAtIssue |-> messagesCache[routeChatId],
         undisturbed |-> TRUE]}
  /\ postsIssued' = postsIssued + 1
  /\ UNCHANGED <<routeChatId, server, nextId, messagesCache, chatListCache,
                 fetches, fetchesIssued, inputText, toasts, renderVars>>

\* handleSubmit with a message on a route without chatId: the flag is
\* raised, mutationFn throws before any request, onError runs and the
\* finally block follows
SubmitWithoutChat ==
  /\ inputText # ""
  /\ postsIssued < MaxPosts
  /\ MutationFn(routeChatId).threw
  /\ messagesCache' =
       OnError(messagesCache, toasts, "chatId is required", NoContext).messages
  /\ toasts' =
       OnError(messagesCache, toasts, "chatId is required", NoContext).toasts
  /\ inputText' = Finally(SetPendingMessage(pendingFlag, TRUE)).inputText
  /\ pendingFlag' = Finally(SetPendingMessage(pendingFlag, TRUE)).pendingFlag
  /\ postsIssued' = postsIssued + 1
  /\ UNCHANGED <<routeChatId, server, nextId, chatListCache, posts, fetches,
                 fetchesIssued, renderVars>>

\* the backend handles a post: it stores the new messages of the chat and
\* answers with them
ServerHandlesPost ==
  \E p \in posts, k \in 0..MaxReturned :
    /\ p.phase = "sent"
    /\ server' = [server EXCEPT ![p.chatId] = @ \o NewMessages(nextId, k)]
    /\ nextId' = nextId + k
    /\ posts' = (posts \ {p}) \cup
         {[p EXCEPT !.phase = "answered", !.data = NewMessages(nextId, k)]}
    /\ UNCHANGED <<routeChatId, messagesCache, chatListCache, fetches,
                   postsIssued, fetchesIssued, inputText, pendingFlag, toasts,
                   renderVars>>

\* the toasts after onSuccess: when onSuccess throws, the mutation fails
\* with that error and onError is called with it
ToastsAfterSuccess(r, messages, raisedToasts) ==
  IF r.threw THEN OnError(messages, raisedToasts, "TypeError", NoContext).toasts
  ELSE raisedToasts

\* the answer of post p arrives: onSuccess, then the finally block of
\* handleSubmit
Succeeds(p) ==
  /\ p.phase = "answered"
  /\ messagesCache' =
       OnSuccess(messagesCache, chatListCache, p.chatId, p.data).messages
  /\ chatListCache' =
       OnSuccess(messagesCache, chatListCache, p.chatId, p.data).chats
  /\ toasts' =
       ToastsAfterSuccess(OnSuccess(messagesCache, chatListCache, p.chatId, p.data),
                          messagesCache, toasts)
  /\ posts' = Disturb(posts \ {p}, p.chatId)
  /\ inputText' = Finally(pendingFlag).inputText
  /\ pendingFlag' = Finally(pendingFlag).pendingFlag
  /\ UNCHANGED <<routeChatId, server, nextId, fetches, postsIssued,
                 fetchesIssued, renderVars>>

PostSucceeds == \E p \in posts : Succeeds(p)

\* post p is rejected with an error, before or after the backend handled
\* it: onError, then the finally block of handleSubmit
Fails(p, error) ==
  /\ messagesCache' = OnError(messagesCache, toasts, error, NoContext).messages
  /\ toasts' = OnError(messagesCache, toasts, error, NoContext).toasts
  /\ posts' = posts \ {p}
  /\ inputText' = Finally(pendingFlag).inputText
  /\ pendingFlag' = Finally(pendingFlag).pendingFlag
  /\ UNCHANGED <<routeChatId, server, nextId, chatListCache, fetches,
                 postsIssued, fetchesIssued, renderVars>>

PostFails == \E p \in posts, error \in ErrorMessages : Fails(p, error)

\* the query of useChatMessages refetches (on its interval, on focus): the
\* backend answers with the list it holds; one fetch per query at a time
FetchServed ==
  /\ routeChatId # NoChatId
  /\ fetchesIssued < MaxFetches
  /\ \A f \in fetches : f.chatId # routeChatId
  /\ fetches' = fetches \cup {[chatId |-> routeChatId, data |-> server[routeChatId]]}
  /\ fetchesIssued' = fetchesIssued + 1
  /\ UNCHANGED <<routeChatId, server, nextId, messagesCache, chatListCache,
                 posts, postsIssued, inputText, pendingFlag, toasts, renderVars>>

\* the answer of a refetch arrives: it becomes the data of the query
FetchArrives ==
  \E f \in fetches :
    /\ messagesCache' = [messagesCache EXCEPT ![f.chatId] = Data(f.data)]
    /\ fetches' = fetches \ {f}
    /\ posts' = Disturb(posts, f.chatId)
    /\ UNCHANGED <<routeChatId, server, nextId, chatListCache, postsIssued,
                   fetchesIssued, inputText, pendingFlag, toasts, renderVars>>

\* a refetch fails: the query keeps its data
FetchFails ==
  \E f \in fetches :
    /\ fetches' = fetches \ {f}
    /\ UNCHANGED <<routeChatId, server, nextId, messagesCache, chatListCache,
                   posts, postsIssued, fetchesIssued, inputText, pendingFlag,
                   toasts, renderVars>>

ChatNext ==
  \/ Type
  \/ SubmitEmpty
  \/ Submit
  \/ SubmitWithoutChat
  \/ ServerHandlesPost
  \/ PostSucceeds
  \/ PostFails
  \/ FetchServed
  \/ FetchArrives
  \/ FetchFails

ChatSpec == ChatInit /\ [][ChatNext]_vars

(***************************************************************************)
(* Properties                                                              *)
(***************************************************************************)
\* the render is over and the extractor ran in it
Extracted == pc = "rendered" /\ extractorCalled

\* the candidate substring of the content, and what JSON.parse makes of it
Candidate == JsonMatch(message.content)
Parsed == JSONParse(CleanUp(Candidate.str))
CandidateParsed == Candidate.found /\ ~Parsed.threw

HasStatus(v) ==
  v.t = "object" /\ Get(v, "status") \in {StatusOk, StatusNeedsClarification}

\* C1: for every input string tryParseDatePlanJson ends without raising and
\* returns a parsed object or null; the empty text gives null and a candidate
\* that JSON.parse rejects gives null.
C1_NeverRaises ==
  /\ tryParseDatePlanJson(<<>>) = Return(Null)
  /\ Extracted =>
       /\ ~extractorThrew
       /\ datePlanData.t \in {"null", "object"}
       /\ Candidate.found /\ Parsed.threw => datePlanData = Null

\* a candidate was found, JSON.parse raised on it, null was returned
C1_Witness ==
  /\ Extracted
  /\ Candidate.found /\ Parsed.threw
  /\ ~extractorThrew /\ datePlanData = Null

\* the main segment is a fenced block whose body is the JSON text of an
\* object with status "ok" and a non-empty plans array
FencedOkPlans ==
  /\ input.wrapping \in {"fenced", "fenced_json"}
  /\ input.source.t = "object"
  /\ Get(input.source, "status") = StatusOk
  /\ Get(input.source, "plans").t = "array"
  /\ Get(input.source, "plans").a # <<>>

\* C2: for every string that contains a fenced block whose body is a JSON
\* object with status "ok" and a non-empty plans array, whatever surrounds
\* the block, tryParseDatePlanJson returns an object equal to that object.
C2_FencedPayloadReturned ==
  Extracted /\ FencedOkPlans => datePlanData = input.source

\* the main segment is the JSON text of an object whose status is neither
\* "ok" nor "needs_clarification"
HoldsOtherStatus ==
  /\ input.source.t = "object"
  /\ Get(input.source, "status") # Undefined
  /\ ~HasStatus(input.source)

HasKey(v, k) == v.t = "object" /\ <<k>> \in DOMAIN v.o

\* the key k is present in v with a value that is not null, false, 0 or ""
HasValue(v, k) ==
  /\ HasKey(v, k)
  /\ \/ v.o[<<k>>].t \in {"array", "object"}
     \/ v.o[<<k>>].t = "string" /\ v.o[<<k>>].s # <<>>
     \/ v.o[<<k>>].t = "number" /\ v.o[<<k>>].n # 0
     \/ v.o[<<k>>].t = "boolean" /\ v.o[<<k>>].b

\* C4 as stated: a parsed candidate is returned exactly when it is an object
\* with status "ok" or "needs_clarification" in which the key plans or the
\* key clarifying_questions is present, whatever its value.
C4_ReturnedIffKeyPresent ==
  Extracted /\ CandidateParsed =>
    IF /\ HasStatus(Parsed.v)
       /\ HasKey(Parsed.v, "plans") \/ HasKey(Parsed.v, "clarifying_questions")
    THEN datePlanData = Parsed.v
    ELSE datePlanData = Null

\* C4: a parsed candidate is returned exactly when it is an object with
\* status "ok" or "needs_clarification" in which plans or
\* clarifying_questions has a value other than null, false, 0 and the empty
\* string (an empty array counts); in every other case null is returned.
C4_ReturnedIffValuePresent ==
  Extracted /\ CandidateParsed =>
    IF /\ HasStatus(Parsed.v)
       /\ HasValue(Parsed.v, "plans") \/ HasValue(Parsed.v, "clarifying_questions")
    THEN datePlanData = Parsed.v
    ELSE datePlanData = Null

\* an object whose only list is an empty plans array was returned
C4_Witness ==
  /\ Extracted /\ CandidateParsed
  /\ Get(Parsed.v, "plans") = Arr(<<>>)
  /\ ~HasKey(Parsed.v, "clarifying_questions")
  /\ datePlanData = Parsed.v

\* C5: for every string without "{" none of the strategies produces a
\* candidate and tryParseDatePlanJson returns null.
C5_NoBraceNoCandidate ==
  pc = "rendered" /\ IndexOf(message.content, LB) = 0 =>
    /\ ~FencedMatch(message.content).found
    /\ ~TagMatch(message.content).found
    /\ ~BraceScan(message.content).found
    /\ datePlanData = Null

\* a fenced block without "{" went through the extractor
C5_Witness ==
  /\ Extracted
  /\ IndexOf(message.content, LB) = 0
  /\ HasFence(message.content, 1)
  /\ datePlanData = Null

IsStringList(v) == v.t = "array" /\ \A i \in 1..Len(v.a) : v.a[i].t = "string"
IsObjectList(v) == v.t = "array" /\ \A i \in 1..Len(v.a) : v.a[i].t = "object"

\* a StructuredPayload: status "ok" with a non-empty list of plans, or
\* status "needs_clarification" with a list of questions
ValidPayload(v) ==
  /\ v.t = "object"
  /\ \/ /\ Get(v, "status") = StatusOk
        /\ IsObjectList(Get(v, "plans")) /\ Get(v, "plans").a # <<>>
        /\ Get(v, "clarifying_questions") = Undefined
           \/ IsStringList(Get(v, "clarifying_questions"))
     \/ /\ Get(v, "status") = StatusNeedsClarification
        /\ IsStringList(Get(v, "clarifying_questions"))
        /\ Get(v, "plans") = Undefined \/ IsObjectList(Get(v, "plans"))

\* C6: round trip: for every valid payload p, extracting from the JSON text
\* of p wrapped in a fenced code block returns a payload equal to p.
C6_RoundTrip ==
  /\ Extracted
  /\ input.wrapping \in {"fenced", "fenced_json"}
  /\ input.pre = <<>> /\ input.post = <<>>
  /\ ValidPayload(input.source)
  => datePlanData = input.source

\* C7: for every message text, extracting and then rendering the accepted
\* payload ends without an uncaught error.
C7_PipelineNeverRaises == pc = "rendered" => ~raised

\* C8: for a message that is not in progress and has no error, the
\* itinerary view is chosen exactly when tryParseDatePlanJson of the content
\* is not null, and the markdown view of the content in every other case.
C8_ItineraryIffExtracted ==
  pc = "rendered" /\ ~message.in_progress /\ ~Truthy(message.error) =>
    IF tryParseDatePlanJson(message.content).v # Null
    THEN /\ view.kind = "itinerary"
         /\ datePlanData = tryParseDatePlanJson(message.content).v
    ELSE view = [kind |-> "markdown", content |-> message.content]

\* a message without error whose content holds a payload got the itinerary
C8_Witness ==
  /\ pc = "rendered" /\ ~message.in_progress /\ ~Truthy(message.error)
  /\ datePlanData = OkPayload
  /\ view.kind = "itinerary"

\* C9: when the message carries an error, tryParseDatePlanJson is not
\* invoked on its content.
C9_ErrorSkipsExtractor ==
  pc = "rendered" /\ Truthy(message.error) => ~extractorCalled

\* the payload handed to DatePlanDisplay asks for clarification and its
\* clarifying_questions is a list of strings, null or absent
ClarificationShown ==
  /\ pc = "rendered" /\ view.kind = "itinerary"
  /\ Get(datePlanData, "status") = StatusNeedsClarification
  /\ \/ Nullish(Get(datePlanData, "clarifying_questions"))
     \/ IsStringList(Get(datePlanData, "clarifying_questions"))

\* C10: for every payload with status "needs_clarification" DatePlanDisplay
\* renders the question list with exactly the entries of
\* clarifying_questions in their order (empty when the field is empty or
\* absent) and no plan block, table, meta strip or summary, even when the
\* payload has plans.
C10_ClarificationOnly ==
  ClarificationShown =>
    /\ ~raised
    /\ view.display.kind = "clarification"
    /\ view.display.questions =
         IF Nullish(Get(datePlanData, "clarifying_questions")) THEN <<>>
         ELSE Get(datePlanData, "clarifying_questions").a
    /\ view.display.blocks = <<>>
    /\ ~view.display.hasMeta /\ view.display.meta = <<>>
    /\ ~view.display.summary

\* a payload with two questions, plans, meta and a summary was rendered
C10_Witness ==
  /\ ClarificationShown
  /\ datePlanData = FullPayload(StatusNeedsClarification)
  /\ view.display.questions = <<Str(<<"A?">>), Str(<<"B?">>)>>

\* the content is a truncated payload, bare, tag-prefixed or in a fence
Truncated ==
  /\ input.source = NoSource
  /\ input.pre = <<>> /\ input.post = <<>>
  /\ \E b \in Truncations : input.content = Wrap(input.wrapping, b)

\* C18: for every input that is the JSON text of a payload cut off in the
\* middle of the object (bare, tag-prefixed or in a fence),
\* tryParseDatePlanJson does not raise and returns null or the object parsed
\* from the candidate trimmed at its last "}"; the same input always gives
\* the same result.
C18_TruncatedNeverRaises ==
  Extracted /\ Truncated =>
    /\ ~extractorThrew
    /\ \/ datePlanData = Null
       \/ CandidateParsed /\ datePlanData = Parsed.v
    /\ Candidate.found => CleanUp(Candidate.str)[Len(CleanUp(Candidate.str))] = RB
    /\ tryParseDatePlanJson(message.content) = Return(datePlanData)

\* a truncated payload after the tag: the candidate was cut at the last "}"
\* of the text, JSON.parse rejected it and null was returned
C18_Witness ==
  /\ Extracted /\ Truncated
  /\ input.wrapping = "tagged"
  /\ Candidate.found
  /\ Len(Candidate.str) < Len(message.content) - 2
  /\ Parsed.threw
  /\ ~extractorThrew /\ datePlanData = Null

\* one of the segments around the main segment is seg
Around(seg) ==
  \/ \E i \in 1..Len(input.pre) : input.pre[i] = seg
  \/ \E i \in 1..Len(input.post) : input.post[i] = seg

\* the content holds a fenced JSON object and a bare or tag-prefixed one
FencedAndOther ==
  /\ input.source.t = "object"
  /\ \/ /\ input.wrapping \in {"fenced", "fenced_json"}
        /\ \/ Around(Stringify(QuestionPayload))
           \/ Around(<<NL, "json", SP>> \o Stringify(QuestionPayload))
           \/ Around(<<LB, RB>>)
     \/ /\ input.wrapping \in {"bare", "tagged"}
        /\ Around(Fence \o <<LB, RB>> \o Fence)

\* no backtick stands before the main segment
NoFenceBefore ==
  \A i \in 1..Len(input.pre) : IndexOf(input.pre[i], BT) = 0

\* s is the beginning of t
IsPrefix(s, t) == Len(s) <= Len(t) /\ s = Sub(t, 1, Len(s))

\* C19: the strategies are tried in the order fenced block, tag-prefixed
\* object, brace-depth scan, each only when every earlier one found no
\* candidate; when a string holds a fenced JSON object and a bare or
\* tag-prefixed one, wherever each stands, the candidate is the fenced one.
C19_FencedFirst ==
  pc = "rendered" =>
    /\ Candidate =
         IF FencedMatch(message.content).found THEN FencedMatch(message.content)
         ELSE IF TagMatch(message.content).found THEN TagMatch(message.content)
         ELSE BraceScan(message.content)
    /\ FencedAndOther =>
         /\ Candidate.found
         /\ Candidate = FencedMatch(message.content)
         /\ input.wrapping \in {"fenced", "fenced_json"} /\ NoFenceBefore =>
              IsPrefix(Candidate.str, Stringify(input.source))

\* a bare payload stands before the fenced one: the fenced one is the
\* candidate and is returned
C19_Witness ==
  /\ Extracted
  /\ input.wrapping = "fenced" /\ input.source = OkPayload
  /\ input.pre = <<Stringify(QuestionPayload)>>
  /\ BraceScan(message.content) = Found(Stringify(QuestionPayload))
  /\ Candidate = Found(Stringify(OkPayload))
  /\ datePlanData = OkPayload

\* what a strategy would have returned, had its match been the candidate
WouldReturn(match) == Catch(ParseCandidate(match)).v

\* C20: once a strategy has produced a candidate, a JSON parse failure or a
\* failure of the shape check of that candidate makes tryParseDatePlanJson
\* return null; no later strategy is tried, even when a later one would have
\* found a valid payload in the string.
C20_NoFallback ==
  Extracted /\ Candidate.found =>
    /\ Parsed.threw => datePlanData = Null
    /\ ~Parsed.threw /\ ~ShapeOk(Parsed.v) => datePlanData = Null
    /\ datePlanData \in {Null, Parsed.v}

\* the fenced object fails the shape check, the tag-prefixed object after it
\* is a valid payload, and null was returned
C20_Witness ==
  /\ Extracted
  /\ input.wrapping = "fenced" /\ input.source = OtherPayload
  /\ Candidate = Found(Stringify(OtherPayload))
  /\ WouldReturn(TagMatch(message.content)) = QuestionPayload
  /\ datePlanData = Null

\* the brace depth of s after position k, counted from position a
Depth(s, a, k) ==
  Cardinality({j \in a..k : s[j] = LB}) - Cardinality({j \in a..k : s[j] = RB})

\* the positions from the first "{" on where the depth is back at zero
BalancedEnds(s) ==
  {k \in IndexOf(s, LB)..Len(s) : Depth(s, IndexOf(s, LB), k) = 0}

\* strategies 1 to 3 found nothing in the content
OnlyScanLeft ==
  ~FencedMatch(message.content).found /\ ~TagMatch(message.content).found

CascadeWithoutThird(s) ==
  IfNoMatch(IfNoMatch(FencedMatch(s), TagMatch(s)), BraceScan(s))
ExtractWithoutThird(content) ==
  IF content = <<>> THEN Return(Null)
  ELSE Catch(ParseCandidate(CascadeWithoutThird(content)))

\* C22: strategy 3 is redundant: for every input string,
\* tryParseDatePlanJson returns what the same extractor returns with the
\* second tag-prefixed match removed.
C22_ThirdRedundant ==
  pc = "rendered" =>
    /\ tryParseDatePlanJson(message.content)
         = ExtractWithoutThird(message.content)
    /\ extractorCalled =>
         datePlanData = ExtractWithoutThird(message.content).v

\* strategies 1 and 2 found nothing, so strategy 3 ran and found nothing,
\* and the payload was returned from the scan
C22_Witness ==
  /\ Extracted
  /\ OnlyScanLeft
  /\ input.pre # <<>>
  /\ datePlanData = OkPayload

\* a candidate starts with "{", ends with "}" once trimmed, and is left as
\* it is by the cut back to the last "}"
CleanCandidate(match) ==
  match.found =>
    /\ match.str # <<>>
    /\ match.str[1] = LB
    /\ Trim(match.str) # <<>>
    /\ Trim(match.str)[Len(Trim(match.str))] = RB
    /\ CutBack(Trim(match.str)) = Trim(match.str)

\* C23: every candidate produced by any of the four strategies starts with
\* "{" and, trimmed, ends with "}", so the cut back to the last "}" never
\* changes a candidate, for any input string.
C23_CutBackIdle ==
  pc = "rendered" =>
    /\ CleanCandidate(FencedMatch(message.content))
    /\ CleanCandidate(TagMatch(message.content))
    /\ CleanCandidate(BraceScan(message.content))
    /\ CleanCandidate(Candidate)

\* a content in which the fenced match, the tag-prefixed match and the
\* scan all find a candidate, three different ones
C23_Witness ==
  /\ Extracted
  /\ FencedMatch(message.content).found
  /\ TagMatch(message.content).found
  /\ BraceScan(message.content).found
  /\ FencedMatch(message.content) # TagMatch(message.content)
  /\ TagMatch(message.content) # BraceScan(message.content)
  /\ CleanUp(Candidate.str) = Candidate.str

\* a string value somewhere in v holds a brace
RECURSIVE HoldsBrace(_)
HoldsBrace(v) ==
  CASE v.t = "string" -> \E k \in 1..Len(v.s) : v.s[k] \in {LB, RB}
    [] v.t = "array" -> \E i \in 1..Len(v.a) : HoldsBrace(v.a[i])
    [] v.t = "object" -> \E k \in DOMAIN v.o : HoldsBrace(v.o[k])
    [] OTHER -> FALSE

\* C24: a bare valid payload is extracted whole by the scan even when its
\* string values hold "{" or "}": braces inside string literals do not
\* change where the candidate ends.
C24_BracesInStrings ==
  /\ Extracted
  /\ input.wrapping = "bare"
  /\ input.pre = <<>> /\ input.post = <<>>
  /\ ValidPayload(input.source)
  /\ HoldsBrace(input.source)
  => /\ Candidate = Found(message.content)
     /\ datePlanData = input.source

\* the view of the precedence: loader, error alert, itinerary, markdown
ViewKind ==
  IF message.in_progress THEN "loader"
  ELSE IF Truthy(message.error) THEN "error"
  ELSE IF datePlanData # Null THEN "itinerary"
  ELSE "markdown"

\* C25: ChatResponseMessage shows one of four views with fixed precedence:
\* the loader whenever the message is in progress, else the error alert
\* whenever the message has an error (even with a valid payload in its
\* content), else the itinerary view, else the markdown view.
C25_ViewPrecedence ==
  pc = "rendered" =>
    /\ view.kind \in {"loader", "error", "itinerary", "markdown"}
    /\ view.kind = ViewKind
    /\ message.in_progress => view = [kind |-> "loader"]
    /\ ~message.in_progress /\ Truthy(message.error) =>
         view = [kind |-> "error", text |-> message.error]

\* a message in progress that has an error and a valid payload in its
\* content shows the loader
C25_Witness ==
  /\ pc = "rendered"
  /\ message.in_progress /\ Truthy(message.error)
  /\ datePlanData = OkPayload
  /\ view = [kind |-> "loader"]

(***************************************************************************)
(* Properties of the chat caches and the pending flag (specification       *)
(* ChatSpec)                                                               *)
(***************************************************************************)
\* C26: when a post to a chat succeeds, the cached message list of that chat
\* becomes its previous list followed by the returned messages in their
\* order (the returned messages alone when nothing was cached); no cached
\* message is removed, changed or moved, and the lists of the other chats
\* stay as they are.
C26_AppendOnSuccess ==
  [][\A p \in posts : Succeeds(p) =>
       /\ messagesCache'[p.chatId].has
       /\ messagesCache'[p.chatId].data
            = OrEmpty(messagesCache[p.chatId]) \o p.data
       /\ \A c \in ChatIds \ {p.chatId} : messagesCache'[c] = messagesCache[c]]_vars

\* the only post has succeeded with two messages and no refetch was made:
\* the list of chat a is its loaded message followed by the two, the list
\* of chat b is as it was
C26_Witness ==
  /\ routeChatId = "a"
  /\ postsIssued = 1 /\ posts = {} /\ fetchesIssued = 0
  /\ toasts = <<>>
  /\ messagesCache["a"] = Data(<<Message(1), Message(2), Message(3)>>)
  /\ messagesCache["b"] = Data(<<>>)

\* the chats of the cached chat list
ChatsOf(cache) == OrEmpty(cache)

\* C27: when a post to a chat succeeds, the cached chat list keeps its
\* length and order, the chat of the post gets the created_at of the last
\* returned message as its updated_at and every other chat is left as it
\* is, for every returned list, the empty one included: the callback ends
\* without an error there too.
C27_ChatListTouched ==
  [][\A p \in posts : Succeeds(p) =>
       /\ ~OnSuccess(messagesCache, chatListCache, p.chatId, p.data).threw
       /\ Len(ChatsOf(chatListCache')) = Len(ChatsOf(chatListCache))
       /\ \A i \in 1..Len(ChatsOf(chatListCache)) :
            /\ ChatsOf(chatListCache')[i].uuid = ChatsOf(chatListCache)[i].uuid
            /\ ChatsOf(chatListCache)[i].uuid # p.chatId =>
                 ChatsOf(chatListCache')[i] = ChatsOf(chatListCache)[i]
            /\ ChatsOf(chatListCache)[i].uuid = p.chatId /\ p.data # <<>> =>
                 ChatsOf(chatListCache')[i].updated_at
                   = p.data[Len(p.data)].created_at]_vars

NoDuplicates(list) ==
  \A i, j \in 1..Len(list) : list[i].uuid = list[j].uuid => i = j

\* C29: under every interleaving of a refetch of the message list with the
\* success callback of a post to the same chat, no message uuid stands
\* twice in the cached message list of that chat.
C29_NoDuplicateUuid ==
  \A c \in ChatIds : NoDuplicates(OrEmpty(messagesCache[c]))

\* C30: a submit of a non-empty message raises the pending flag before the
\* request is issued; when the request settles, on success and on failure
\* alike, the flag is lowered and the input text cleared, so the flag is
\* never up when no request is in flight; a submit of an empty message
\* issues no request and leaves the flag as it is.
C30_PendingFlag ==
  /\ [](posts = {} => ~pendingFlag)
  /\ [][/\ Submit =>
             /\ pendingFlag'
             /\ \E p \in posts' \ posts : p.phase = "sent" /\ p.flagAtIssue
        /\ \A p \in posts : Succeeds(p) => ~pendingFlag' /\ inputText' = ""
        /\ \A p \in posts, error \in ErrorMessages :
             Fails(p, error) => ~pendingFlag' /\ inputText' = ""
        /\ SubmitWithoutChat => ~pendingFlag' /\ inputText' = ""
        /\ SubmitEmpty => posts' = posts /\ pendingFlag' = pendingFlag
        /\ inputText = "" => postsIssued' = postsIssued]_vars

\* the post was rejected: no request is in flight, the flag is down, the
\* text is cleared
C30_Witness ==
  /\ routeChatId = "a"
  /\ postsIssued = 1 /\ posts = {}
  /\ toasts = <<"Network Error">>
  /\ ~pendingFlag
  /\ inputText = ""

(***************************************************************************)
(* Properties of DatePlanDisplay (specification DisplaySpec)               *)
(***************************************************************************)
\* the plans of the payload that was rendered
PlansOf(data) == Get(data, "plans")

\* the plans field is absent, null or an empty list
NoPlans(data) == PlansOf(data) \in {Undefined, Null, Arr(<<>>)}

\* the notice that no plan was generated, and nothing else
NoPlanNotice == View("no_plan", <<>>, FALSE, <<>>, <<>>, FALSE)

\* C11: for every payload whose status is not "needs_clarification" and
\* whose plans field is empty or absent, DatePlanDisplay renders the notice
\* that no plan was generated and nothing else: no plan block, no meta
\* strip, no summary, no empty layout.
C11_NoPlanNotice ==
  /\ pc = "rendered"
  /\ Get(datePlanData, "status") # StatusNeedsClarification
  /\ NoPlans(datePlanData)
  => /\ ~raised
     /\ view = [kind |-> "itinerary", display |-> NoPlanNotice]
     /\ texts = NoTexts

\* a payload with an empty plans list, a meta record and a summary got the
\* notice
C11_Witness ==
  /\ pc = "rendered"
  /\ datePlanData = DisplayPayload(StatusOk, Arr(<<>>), Undefined, MetaFull, Str(<<"T">>))
  /\ view.display = NoPlanNotice

\* the itinerary items of the payload: pairs of plan and row positions
ItemsOf(data) ==
  {pr \in (1..MaxPlans + 1) \X {1} :
     /\ PlansOf(data).t = "array"
     /\ pr[1] <= Len(PlansOf(data).a)
     /\ Get(PlansOf(data).a[pr[1]], "itinerary").t = "array"
     /\ pr[2] <= Len(Get(PlansOf(data).a[pr[1]], "itinerary").a)}

ItemAt(data, pr) == Get(PlansOf(data).a[pr[1]], "itinerary").a[pr[2]]

\* the type of the item is a text that is none of the nine known types
UnknownType(item) ==
  /\ Get(item, "type").t = "string"
  /\ Get(item, "type") \notin {Str(<<k>>) : k \in TypeKeys}

\* C12: for every itinerary item whose type is not one of the nine known
\* types, DatePlanDisplay does not fail and the type badge of its row shows
\* the `other` label and the `other` color class.
C12_UnknownTypeOther ==
  pc = "rendered" /\ Get(datePlanData, "status") = StatusOk =>
    \A pr \in ItemsOf(datePlanData) :
      UnknownType(ItemAt(datePlanData, pr)) =>
        /\ ~raised
        /\ texts.plans[pr[1]].rows[pr[2]].badge.label = Str(<<typeLabels["other"]>>)
        /\ texts.plans[pr[1]].rows[pr[2]].badge.color = Str(<<typeColors["other"]>>)

\* C13: for every plan of an ok payload the identifier badge shows plan_id
\* when it is present and the position of the plan (counted from 0 or from
\* 1) when plan_id is absent; plans with duplicate or absent plan_id are all
\* rendered.
C13_BadgeFallsBackToIndex ==
  /\ pc = "rendered"
  /\ Get(datePlanData, "status") = StatusOk
  /\ IsObjectList(PlansOf(datePlanData)) /\ PlansOf(datePlanData).a # <<>>
  /\ ~raised
  => /\ Len(view.display.blocks) = Len(PlansOf(datePlanData).a)
     /\ \A i \in 1..Len(view.display.blocks) :
          IF Get(PlansOf(datePlanData).a[i], "plan_id") # Undefined
          THEN view.display.blocks[i].badge = Get(PlansOf(datePlanData).a[i], "plan_id")
          ELSE view.display.blocks[i].badge \in {Num(i - 1), Num(i)}

\* the text is a timestamp "YYYY-MM-DD HH:MM"
WellFormed(x) == x.t = "string" /\ DateParse(DateText(x.s)).valid

\* C14: for every well-formed timestamp "YYYY-MM-DD HH:MM" the time shown in
\* an itinerary row is that same HH:MM, the wall-clock time at UTC+9,
\* whatever the time zone and locale of the viewer's runtime.
C14_SameTimeForEveryViewer ==
  pc = "rendered" /\ ~raised =>
    \A pr \in ItemsOf(datePlanData) :
      WellFormed(Get(ItemAt(datePlanData, pr), "start")) =>
        texts.plans[pr[1]].rows[pr[2]].start =
          Str(Sub(Get(ItemAt(datePlanData, pr), "start").s, 12, 16))

MetaFields == <<"meetup_time", "breakup_time", "transport_mode", "assumed_date">>

\* the fields of the entries of the strip that is shown, in their order
ShownFields == [i \in 1..Len(texts.meta) |-> texts.meta[i].field]

\* the payload has a meta record
HasMeta(data) == Get(data, "meta").t = "object"

KeyShown(meta, f) ==
  HasKey(meta, f) /\ (f = "transport_mode" => Get(meta, f) # Str(<<"unspecified">>))

ValueShown(meta, f) ==
  HasValue(meta, f) /\ (f = "transport_mode" => Get(meta, f) # Str(<<"unspecified">>))

\* the text of every transport entry follows the label lookup
TransportTexts ==
  \A i \in 1..Len(texts.meta) :
    texts.meta[i].field = "transport_mode" =>
      LET mode == Get(Get(datePlanData, "meta"), "transport_mode")
      IN texts.meta[i].text =
           CASE mode = Str(<<"walk">>) -> Str(<<"toho">>)
             [] mode = Str(<<"transit">>) -> Str(<<"koukyou koutsuu">>)
             [] mode = Str(<<"car">>) -> Str(<<"kuruma">>)
             [] OTHER -> mode

\* C15 as stated: whenever the payload has a meta record, the strip is
\* rendered with an entry for exactly those of the four fields whose key is
\* present (transport mode "unspecified" left out).
C15_StripWheneverMeta ==
  pc = "rendered" /\ ~raised /\ HasMeta(datePlanData) =>
    /\ view.display.hasMeta
    /\ ShownFields =
         SelectSeq(MetaFields, LAMBDA f : KeyShown(Get(datePlanData, "meta"), f))
    /\ TransportTexts

\* C15: whenever the plan view is rendered (the status is not
\* "needs_clarification" and plans is not empty) and the payload has a meta
\* record, the strip holds an entry for exactly those of meetup time,
\* breakup time, transport mode and assumed date whose value is not empty,
\* in this order, transport mode "unspecified" left out and walk, transit
\* and car shown through the label lookup; a field without a value gives no
\* entry.  A payload that asks for clarification or has no plan shows no
\* strip.
C15_StripInPlanView ==
  pc = "rendered" /\ ~raised /\ HasMeta(datePlanData) =>
    IF view.display.kind = "plans"
    THEN /\ view.display.hasMeta
         /\ ShownFields =
              SelectSeq(MetaFields, LAMBDA f : ValueShown(Get(datePlanData, "meta"), f))
         /\ view.display.meta = ShownFields
         /\ TransportTexts
    ELSE ~view.display.hasMeta /\ texts.meta = <<>>

\* a meta record with an empty meetup time and transport mode "unspecified"
\* was rendered: the strip shows the breakup time and the date
C15_Witness ==
  /\ pc = "rendered" /\ ~raised
  /\ view.display.kind = "plans"
  /\ Get(datePlanData, "meta") =
       MetaOf(Str(<<>>), Timestamp(5, 1, 23, 30), Str(<<"unspecified">>),
              Str(<<"2024-05-01">>))
  /\ ShownFields = <<"breakup_time", "assumed_date">>

\* the sequence part stands somewhere in s
Contains(s, part) == \E i \in 1..Len(s) : MatchesAt(s, i, part)

\* part stands in s at the start of a line
HasLine(s, part) ==
  \E i \in 1..Len(s) : MatchesAt(s, i, part) /\ (i = 1 \/ s[i - 1] = NL)

Count(s, c) == Cardinality({i \in 1..Len(s) : s[i] = c})

\* C16: when markdown_summary is present, the transform turns every newline
\* into a line break, every line "## T" or "### T" that ends with a newline
\* into a level-2 or level-3 heading with text T, every "**x**" into bold x
\* and every remaining "*x*" into italic x.
C16_SummaryTransform ==
  /\ pc = "rendered" /\ ~raised
  /\ view.display.kind = "plans"
  /\ Truthy(Get(datePlanData, "markdown_summary"))
  => LET source == Get(datePlanData, "markdown_summary").s
     IN /\ Count(texts.summary, NL) = 0
        /\ HasLine(source, <<"#", "#", SP, "T", NL>>) =>
             Contains(texts.summary, <<"<h2>", "T", "</h2>">>)
        /\ HasLine(source, <<"#", "#", "#", SP, "T", NL>>) =>
             Contains(texts.summary, <<"<h3>", "T", "</h3>">>)
        /\ source = <<"*", "*", "x", "*", "*">> =>
             texts.summary = <<"<strong>", "x", "</strong>">>
        /\ source = <<"*", "x", "*">> => texts.summary = <<"<em>", "x", "</em>">>

\* the decimal digits of n with a comma between groups of three digits
WithCommas(n) == GroupDigits(NumText(n), 3, 3, ",")

\* C17 as stated: for every plan whose budget_estimate_jpy has non-negative integers
\* min and max, the budget text shows both amounts with a thousands
\* separator between groups of three digits, each preceded by the currency
\* symbol, whatever the locale of the viewer's runtime.
C17_ThousandsSeparators ==
  pc = "rendered" /\ ~raised /\ view.display.kind = "plans" =>
    \A i \in 1..Len(PlansOf(datePlanData).a) :
      LET budget == Get(PlansOf(datePlanData).a[i], "budget_estimate_jpy")
      IN budget.t = "object" =>
           texts.plans[i].budget =
             <<YEN>> \o WithCommas(Get(budget, "min").n)
             \o <<SP, WAVE, SP, YEN>> \o WithCommas(Get(budget, "max").n)

\* the text without the separators of the number formats
WithoutSeparators(text) == SelectSeq(text, LAMBDA c : c \notin {",", ".", NNBSP})

BudgetOf(i) == Get(PlansOf(datePlanData).a[i], "budget_estimate_jpy")

\* the budget line with the two amounts written as lo and hi
BudgetLine(lo, hi) == <<YEN>> \o lo \o <<SP, WAVE, SP, YEN>> \o hi

\* C17: for every plan whose budget_estimate_jpy has non-negative integers
\* min and max, the budget text shows both amounts in the number format of
\* the default locale of the viewer's runtime, each preceded by the currency
\* symbol and with all its digits: with a comma between groups of three
\* digits in ja-JP and en-US, with a period in de-DE.
C17_LocaleSeparators ==
  pc = "rendered" /\ ~raised /\ view.display.kind = "plans" =>
    \A i \in 1..Len(PlansOf(datePlanData).a) :
      BudgetOf(i).t = "object" =>
        /\ WithoutSeparators(texts.plans[i].budget) =
             BudgetLine(NumText(Get(BudgetOf(i), "min").n),
                        NumText(Get(BudgetOf(i), "max").n))
        /\ viewer.locale \in {"ja-JP", "en-US"} =>
             texts.plans[i].budget =
               BudgetLine(WithCommas(Get(BudgetOf(i), "min").n),
                          WithCommas(Get(BudgetOf(i), "max").n))
        /\ viewer.locale = "de-DE" =>
             texts.plans[i].budget =
               BudgetLine(GroupDigits(NumText(Get(BudgetOf(i), "min").n), 3, 3, "."),
                          GroupDigits(NumText(Get(BudgetOf(i), "max").n), 3, 3, "."))

\* a budget of 5000 to 12000 was rendered for a viewer whose locale is ja-JP
C17_Witness ==
  /\ pc = "rendered" /\ ~raised
  /\ viewer.locale = "ja-JP"
  /\ PlansOf(datePlanData) = Arr(<<Plan(Str(<<"A">>), Budget(5000, 12000), Undefined)>>)
  /\ texts.plans[1].budget =
       <<YEN, "5", ",", "0", "0", "0", SP, WAVE, SP, YEN, "1", "2", ",", "0", "0", "0">>

====
